---- MODULE Spec2Model ----
(***************************************************************************)
(* Affect-analytics core of the mental-health backend:                     *)
(*   - crisis detector     (backend/ai/shared/crisis_detector.py)          *)
(*   - fusion engine       (backend/fusion_service/main.py)                *)
(*   - temporal analyzer   (backend/ai/text_service/temporal_analyzer.py)  *)
(*   - wellness calculator (backend/shared/wellness_calculator.py)         *)
(*   - emotion history     (backend/ai/text_service/emotion_patterns.py)   *)
(* Strings are sequences of one-character strings, so substring tests are  *)
(* the literal character-level tests of Python's `in`.  Fractions are kept *)
(* exact: a score or weight is an integer number of tenths, a product a    *)
(* number of hundredths, a quotient a record [num, den].                   *)
(***************************************************************************)
EXTENDS Integers, Sequences, FiniteSets, TLC

VARIABLES
    crisis_detector,  \* the module global of crisis_detector.py, or Unbound
    crisisCall,       \* the last call made on the crisis detector
    crisisOut,        \* what that call produced: a value or a raised error
    fusionCall,       \* the last call made on the fusion service
    fusionOut,        \* what that call returned
    text_analyses,    \* rows of the text-analysis table, in insertion order
    clock,            \* the wall clock, in hours
    temporalCall,     \* the last call made on the temporal analyzer
    temporalOut,      \* what that call returned
    wellnessCall,     \* the last call made on the wellness calculator
    wellnessOut,      \* what that call returned
    emotion_history,  \* emotion_patterns.py: user id -> entries, as appended
    patternCall,      \* the last call made on the in-memory emotion history
    patternOut,       \* what that call returned
    added,            \* every add_entry call made so far, in call order
    threads,          \* emotion_patterns.py: the caller of each subject, in its call
    rate_limiter,     \* rate_limiter.py: the module global RateLimiter
    rateTime,         \* time.time() as the rate limiter reads it, in seconds
    rateLog,          \* every is_allowed call made so far, with what it returned
    rateOut,          \* the last response of rate_limit_middleware
    model_cache,      \* cache.py: model_cache.cache, key -> (value, expiry_time)
    cacheTime,        \* time.time() as the cache reads it, in seconds
    callers,          \* cache.py: each thread inside the cache_model wrapper
    cacheLog          \* every loader run, clear and return so far, in order

crisisVars == <<crisis_detector, crisisCall, crisisOut>>
fusionVars == <<fusionCall, fusionOut>>
temporalVars == <<text_analyses, clock, temporalCall, temporalOut>>
wellnessVars == <<wellnessCall, wellnessOut>>
patternVars == <<emotion_history, patternCall, patternOut, added>>
threadVars == <<threads>>
rateVars == <<rate_limiter, rateTime, rateLog, rateOut>>
cacheVars == <<model_cache, cacheTime, callers, cacheLog>>
vars == <<crisis_detector, crisisCall, crisisOut, fusionCall, fusionOut,
          text_analyses, clock, temporalCall, temporalOut,
          wellnessCall, wellnessOut,
          emotion_history, patternCall, patternOut, added, threads,
          rate_limiter, rateTime, rateLog, rateOut,
          model_cache, cacheTime, callers, cacheLog>>

\* what an operation of one component leaves alone: the other components
exceptCrisis == <<fusionVars, temporalVars, wellnessVars, patternVars, threadVars, rateVars, cacheVars>>
exceptFusion == <<crisisVars, temporalVars, wellnessVars, patternVars, threadVars, rateVars, cacheVars>>
exceptTemporal == <<crisisVars, fusionVars, wellnessVars, patternVars, threadVars, rateVars, cacheVars>>
exceptWellness == <<crisisVars, fusionVars, temporalVars, patternVars, threadVars, rateVars, cacheVars>>
\* the in-memory emotion history reads the wall clock of temporalVars
exceptPatterns ==
    <<crisisVars, fusionVars, wellnessVars, text_analyses, temporalCall, temporalOut,
      threadVars, rateVars, cacheVars>>
\* what the rate limiter and the model cache leave alone
exceptRate ==
    <<crisisVars, fusionVars, temporalVars, wellnessVars, patternVars, threadVars, cacheVars>>
exceptCache ==
    <<crisisVars, fusionVars, temporalVars, wellnessVars, patternVars, threadVars, rateVars>>
\* what a step of a caller of the in-memory emotion history leaves alone
exceptThreads ==
    <<crisisVars, fusionVars, wellnessVars, text_analyses, temporalCall, temporalOut,
      patternCall, patternOut, rateVars, cacheVars>>

\* Python's None, and a module global whose assignment was never reached
None == [tag |-> "None"]
Unbound == [tag |-> "Unbound"]
\* None in a slot that otherwise holds a string
NoneStr == "None"

\* ------------------------------------------------------------------------
\* Bounds
\* ------------------------------------------------------------------------
MaxFragments == 2
MaxRecords == 10
MaxOtherRows == 1
MaxStaleRows == 1
MaxSeries == 21
MaxEntries == 2

\* ------------------------------------------------------------------------
\* Strings
\* ------------------------------------------------------------------------
UpperToLower ==
    [c \in {"I", "K", "L", "M", "Y", "S", "E", "F"} |->
        CASE c = "I" -> "i" [] c = "K" -> "k" [] c = "L" -> "l"
          [] c = "M" -> "m" [] c = "Y" -> "y" [] c = "S" -> "s"
          [] c = "E" -> "e" [] c = "F" -> "f"]

\* str.lower()
Lower(s) ==
    [i \in 1..Len(s) |-> IF s[i] \in DOMAIN UpperToLower
                         THEN UpperToLower[s[i]] ELSE s[i]]

\* `kw in s` on Python strings: kw is a contiguous run of characters of s
Contains(kw, s) ==
    \E i \in 1..(Len(s) - Len(kw) + 1) : SubSeq(s, i, i + Len(kw) - 1) = kw

\* ------------------------------------------------------------------------
\* crisis_detector.py
\* ------------------------------------------------------------------------
CrisisLevel == {"none", "low", "moderate", "high", "critical"}

CRISIS_INDICATORS ==
    << [keyword |-> <<"s","u","i","c","i","d","e">>,
        severity |-> 10, category |-> "suicide"],
       [keyword |-> <<"k","i","l","l"," ","m","y","s","e","l","f">>,
        severity |-> 10, category |-> "suicide"],
       [keyword |-> <<"e","n","d"," ","m","y"," ","l","i","f","e">>,
        severity |-> 10, category |-> "suicide"],
       [keyword |-> <<"w","a","n","t"," ","t","o"," ","d","i","e">>,
        severity |-> 10, category |-> "suicide"],
       [keyword |-> <<"s","e","l","f"," ","h","a","r","m">>,
        severity |-> 9, category |-> "self_harm"],
       [keyword |-> <<"c","u","t"," ","m","y","s","e","l","f">>,
        severity |-> 9, category |-> "self_harm"],
       [keyword |-> <<"h","u","r","t"," ","m","y","s","e","l","f">>,
        severity |-> 8, category |-> "self_harm"],
       [keyword |-> <<"o","v","e","r","d","o","s","e">>,
        severity |-> 9, category |-> "self_harm"],
       [keyword |-> <<"h","o","p","e","l","e","s","s">>,
        severity |-> 6, category |-> "depression"],
       [keyword |-> <<"w","o","r","t","h","l","e","s","s">>,
        severity |-> 6, category |-> "depression"],
       [keyword |-> <<"c","a","n","'","t"," ","g","o"," ","o","n">>,
        severity |-> 7, category |-> "depression"],
       [keyword |-> <<"g","i","v","e"," ","u","p">>,
        severity |-> 5, category |-> "depression"],
       [keyword |-> <<"h","u","r","t"," ","s","o","m","e","o","n","e">>,
        severity |-> 9, category |-> "violence"],
       [keyword |-> <<"k","i","l","l"," ","s","o","m","e","o","n","e">>,
        severity |-> 10, category |-> "violence"] >>

\* `from typing import List, Optional`: the typing names the module binds
TypingImports == {"List", "Optional"}

\* the typing names the field annotations of CrisisResponse evaluate when the
\* class body runs (List[str], List[Dict[str, str]])
CrisisResponseAnnotationNames == {"List", "Dict"}

\* The class body of CrisisResponse evaluates its annotations; a name that is
\* not bound raises NameError there, before CrisisDetector and the global
\* crisis_detector are defined.
CrisisModuleLoads == CrisisResponseAnnotationNames \subseteq TypingImports

NameError == [raised |-> "NameError"]

\* CrisisDetector.__init__
CrisisDetectorInit == [indicators |-> CRISIS_INDICATORS]

\* module level: `crisis_detector = CrisisDetector()` is reached only when the
\* statements before it ran
CrisisModuleGlobal == IF CrisisModuleLoads THEN CrisisDetectorInit ELSE Unbound

Max(a, b) == IF a >= b THEN a ELSE b

\* the loop of analyze_message over self.indicators, from indicator i on
RECURSIVE ScanIndicators(_, _, _, _)
ScanIndicators(indicators, message_lower, i, acc) ==
    IF i > Len(indicators) THEN acc
    ELSE LET indicator == indicators[i] IN
         IF Contains(indicator.keyword, message_lower)
         THEN ScanIndicators(indicators, message_lower, i + 1,
                  [detected |-> Append(acc.detected, indicator.keyword),
                   max_severity |-> Max(acc.max_severity, indicator.severity),
                   categories |-> acc.categories \cup {indicator.category}])
         ELSE ScanIndicators(indicators, message_lower, i + 1, acc)

\* the if/elif chain of analyze_message
LevelOfSeverity(max_severity) ==
    IF max_severity >= 9 THEN "critical"
    ELSE IF max_severity >= 7 THEN "high"
    ELSE IF max_severity >= 5 THEN "moderate"
    ELSE IF max_severity >= 3 THEN "low"
    ELSE "none"

CriticalActions ==
    << "IMMEDIATE: Contact emergency services (911)",
       "Display National Suicide Prevention Lifeline: 988",
       "Notify on-call crisis counselor",
       "Alert emergency contacts",
       "Lock dangerous features (e.g., medication reminders)" >>

CriticalResources ==
    << [name |-> "National Suicide Prevention Lifeline", contact |-> "988", available |-> "24/7"],
       [name |-> "Crisis Text Line", contact |-> "Text HOME to 741741", available |-> "24/7"],
       [name |-> "Emergency Services", contact |-> "911", available |-> "24/7"] >>

HighActions ==
    << "Connect to crisis counselor immediately",
       "Display crisis hotline numbers",
       "Notify therapist if available",
       "Suggest safety planning" >>

HighResources ==
    << [name |-> "National Suicide Prevention Lifeline", contact |-> "988", available |-> "24/7"],
       [name |-> "Crisis Text Line", contact |-> "Text HOME to 741741", available |-> "24/7"],
       [name |-> "SAMHSA Helpline", contact |-> "1-800-662-4357", available |-> "24/7"] >>

ModerateActions ==
    << "Offer to connect with counselor",
       "Provide coping resources",
       "Suggest crisis chat support",
       "Monitor closely" >>

ModerateResources ==
    << [name |-> "Crisis Text Line", contact |-> "Text HOME to 741741", available |-> "24/7"],
       [name |-> "SAMHSA Helpline", contact |-> "1-800-662-4357", available |-> "24/7"] >>

LowActions ==
    << "Provide supportive resources",
       "Suggest wellness activities",
       "Offer to schedule therapist session" >>

LowResources ==
    << [name |-> "Crisis Text Line", contact |-> "Text HOME to 741741", available |-> "24/7"] >>

\* CrisisResponse(...): the model class exists only when the module loaded
CrisisResponse(crisis_level, detected, immediate_actions, resources, escalation_required, emergency_contact) ==
    IF ~CrisisModuleLoads THEN NameError
    ELSE [crisis_level |-> crisis_level,
          detected_indicators |-> detected,
          immediate_actions |-> immediate_actions,
          resources |-> resources,
          escalation_required |-> escalation_required,
          emergency_contact_triggered |-> emergency_contact]

\* CrisisDetector._generate_response
GenerateResponse(crisis_level, detected, categories, user_id) ==
    CASE crisis_level = "critical" ->
            CrisisResponse(crisis_level, detected, CriticalActions,
                           CriticalResources, TRUE, TRUE)
      [] crisis_level = "high" ->
            CrisisResponse(crisis_level, detected, HighActions,
                           HighResources, TRUE, FALSE)
      [] crisis_level = "moderate" ->
            CrisisResponse(crisis_level, detected, ModerateActions,
                           ModerateResources, FALSE, FALSE)
      [] crisis_level = "low" ->
            CrisisResponse(crisis_level, detected, LowActions,
                           LowResources, FALSE, FALSE)
      [] OTHER ->
            CrisisResponse(crisis_level, detected, <<>>, <<>>, FALSE, FALSE)

\* CrisisDetector.analyze_message on a detector object
DetectorAnalyze(detector, message, user_id) ==
    LET scan == ScanIndicators(detector.indicators, Lower(message), 1,
                    [detected |-> <<>>, max_severity |-> 0, categories |-> {}])
    IN GenerateResponse(LevelOfSeverity(scan.max_severity), scan.detected,
                        scan.categories, user_id)

\* CrisisDetector.log_crisis_event: builds and returns the event, writes nothing
\* to the detector (the timestamp is left out of the event)
DetectorLogEvent(detector, user_id, response) ==
    [user_id |-> user_id,
     crisis_level |-> response.crisis_level,
     indicators |-> response.detected_indicators,
     actions_taken |-> response.immediate_actions,
     escalated |-> response.escalation_required]

\* ---- inputs --------------------------------------------------------------
Fragments ==
    { <<"I"," ","w","a","n","t"," ","t","o"," ">>,
      <<"k","i","l","l"," ","m","y">>,
      <<"s","e","l","f">>,
      <<"K","I","L","L"," ","M","Y","S","E","L","F">>,
      <<"I"," ","f","e","e","l"," ">>,
      <<"h","o","p","e","l","e","s","s">>,
      <<"n","e","s","s">>,
      <<" ","a","n","d"," ">>,
      <<"h","u","r","t"," ">>,
      <<"m","y","s","e","l","f">>,
      <<"g","i","v","e"," ","u","p">>,
      <<"c","a","n","'","t"," ","g","o"," ","o","n">> }

RECURSIVE Concat(_)
Concat(fs) == IF fs = <<>> THEN <<>> ELSE Head(fs) \o Concat(Tail(fs))

\* every message of at most MaxFragments fragments, the empty message included
Messages ==
    { Concat(fs) : fs \in UNION { [1..n -> Fragments] : n \in 0..MaxFragments } }

UserIds == {1, 2}

\* ---- operations ------------------------------------------------------------
\* a caller runs crisis_detector.analyze_message(message, user_id)
AnalyzeMessage ==
    \E message \in Messages, user_id \in UserIds :
        /\ crisisCall = None
        /\ crisisCall' = [op |-> "analyze_message", message |-> message,
                          user_id |-> user_id]
        /\ crisisOut' = IF crisis_detector = Unbound THEN NameError
                        ELSE DetectorAnalyze(crisis_detector, message, user_id)
        /\ UNCHANGED <<crisis_detector, exceptCrisis>>

\* a caller runs crisis_detector.log_crisis_event(user_id, response) on the
\* response of the last analyze_message
LogCrisisEvent ==
    /\ crisisCall # None
    /\ crisisCall.op = "analyze_message"
    /\ crisisCall' = [crisisCall EXCEPT !.op = "log_crisis_event"]
    /\ crisisOut' = IF crisis_detector = Unbound \/ crisisOut = NameError
                    THEN NameError
                    ELSE DetectorLogEvent(crisis_detector, crisisCall.user_id,
                                          crisisOut)
    /\ UNCHANGED <<crisis_detector, exceptCrisis>>

\* ------------------------------------------------------------------------
\* fusion_service/main.py
\* ------------------------------------------------------------------------
\* a number num/den
Frac(num, den) == [num |-> num, den |-> den]
FracEq(a, b) == a.num * b.den = b.num * a.den
FracLeq(a, b) == a.num * b.den <= b.num * a.den

\* a Python dict with the given items
Dict(items) == [tag |-> "dict", items |-> items]
EmptyItems == [k \in {} |-> 0]

\* truth value of an Optional[dict]: None and {} are false
Truthy(v) == v.tag = "dict" /\ DOMAIN v.items # {}

\* dict.get(key, default)
Get(d, key, default) == IF key \in DOMAIN d.items THEN d.items[key] ELSE default

Modalities == <<"text", "voice", "face">>

\* weights in tenths
EMOTION_WEIGHTS == [text |-> 4, voice |-> 3, face |-> 3]

LabelKey == [text |-> "emotion_label", voice |-> "voice_label", face |-> "face_label"]
ScoreKey == [text |-> "emotion_score", voice |-> "voice_score", face |-> "face_score"]

\* the three `if <modality>_data:` blocks: the entries of `emotions` in
\* insertion order (scores in tenths, default 0.5) and total_weight
RECURSIVE CollectEmotions(_, _)
CollectEmotions(data, i) ==
    IF i > Len(Modalities) THEN [emotions |-> <<>>, total_weight |-> 0]
    ELSE LET m == Modalities[i]
             rest == CollectEmotions(data, i + 1)
         IN IF Truthy(data[m])
            THEN [emotions |->
                     <<[modality |-> m,
                        emotion |-> Get(data[m], LabelKey[m], "neutral"),
                        score |-> Get(data[m], ScoreKey[m], 5)]>>
                     \o rest.emotions,
                  total_weight |-> EMOTION_WEIGHTS[m] + rest.total_weight]
            ELSE rest

\* unweighted variant: the raw score taken as the weighted score
WeightedScoreUnweighted(entry) == entry.score * 10

\* data['score'] * EMOTION_WEIGHTS[modality], in hundredths
WeightedScore(entry) == entry.score * EMOTION_WEIGHTS[entry.modality]

\* the loop over emotions.items(), from entry i on
RECURSIVE BestOf(_, _, _)
BestOf(emotions, i, best) ==
    IF i > Len(emotions) THEN best
    ELSE IF WeightedScore(emotions[i]) > best.best_score
         THEN BestOf(emotions, i + 1,
                     [best_emotion |-> emotions[i].emotion,
                      best_score |-> WeightedScore(emotions[i])])
         ELSE BestOf(emotions, i + 1, best)

Min(a, b) == IF a <= b THEN a ELSE b

\* `return 'neutral', 0.5, 0.5`
NoModalityDefault ==
    [overall_emotion |-> "neutral", overall_score |-> Frac(5, 10),
     confidence |-> Frac(5, 10)]

\* calculate_fusion_emotion(text_data, voice_data, face_data);
\* data maps each modality to its argument
calculate_fusion_emotion(data) ==
    LET c == CollectEmotions(data, 1) IN
    IF c.emotions = <<>> THEN NoModalityDefault
    ELSE LET best == BestOf(c.emotions, 1,
                            [best_emotion |-> NoneStr, best_score |-> 0])
         IN [overall_emotion |-> best.best_emotion,
             overall_score |-> IF c.total_weight > 0
                               THEN Frac(best.best_score, 10 * c.total_weight)
                               ELSE Frac(5, 10),
             confidence |-> Frac(Min(c.total_weight, 10), 10)]

\* `if input_data.text:`: None and "" are false
TextSupplied(text) == text \notin {NoneStr, ""}

\* variant that reads the body whatever the status code is
TextResultIgnoringStatus(text, reply) ==
    IF ~TextSupplied(text) THEN None
    ELSE IF reply.kind = "raises" THEN None
    ELSE IF reply.body.tag # "dict" THEN None
    ELSE Get(reply.body, "result", Dict(EmptyItems))

\* text_result after the `if input_data.text:` block of analyze_fusion: the
\* client call may raise, answer with a status other than 200, or answer 200
\* with a body; an exception inside the inner try leaves text_result None
TextResult(text, reply) ==
    IF ~TextSupplied(text) THEN None
    ELSE IF reply.kind = "raises" THEN None
    ELSE IF reply.status_code # 200 THEN None
    ELSE IF reply.body.tag # "dict" THEN None
    ELSE Get(reply.body, "result", Dict(EmptyItems))

\* round(x, n) with scale = 10^n: the nearest multiple of 1/scale, ties to
\* even (x.den > 0)
RoundFrac(x, scale) ==
    LET q == (x.num * scale) \div x.den
        r == (x.num * scale) % x.den
    IN Frac(IF 2 * r > x.den \/ (2 * r = x.den /\ q % 2 = 1) THEN q + 1 ELSE q,
            scale)

Round4(x) == RoundFrac(x, 10000)
Round2(x) == RoundFrac(x, 100)

\* analyze_fusion(input_data) with the text service answering `reply`;
\* FusionResult requires overall_emotion to be a str, and any exception becomes
\* HTTPException(500); fusion_id and analysis_summary are left out
analyze_fusion(input_data, reply) ==
    LET text_result == TextResult(input_data.text, reply)
        fused == calculate_fusion_emotion(
                     [text |-> text_result, voice |-> None, face |-> None])
    IN IF fused.overall_emotion = NoneStr
       THEN [status_code |-> 500, detail |-> "Fusion analysis failed"]
       ELSE [status_code |-> 200,
             result |-> [user_id |-> input_data.user_id,
                         overall_emotion |-> fused.overall_emotion,
                         overall_score |-> Round4(fused.overall_score),
                         confidence |-> Round4(fused.confidence),
                         text_emotion |-> text_result,
                         voice_emotion |-> None,
                         face_emotion |-> None],
             message |-> "Fusion analysis completed successfully"]

\* ---- inputs --------------------------------------------------------------
Labels == {"sadness", "joy"}

\* scores in tenths, all inside [0, 1]
Scores == {0, 5, 6, 8, 10}

\* the values a modality argument takes: None, {}, and dicts with either or
\* both of the label and score keys
ModalityValues(m) ==
    {None, Dict(EmptyItems)}
    \cup { Dict([k \in {LabelKey[m]} |-> l]) : l \in Labels }
    \cup { Dict([k \in {ScoreKey[m]} |-> sc]) : sc \in Scores }
    \cup { Dict([k \in {LabelKey[m], ScoreKey[m]} |->
                    IF k = LabelKey[m] THEN l ELSE sc]) :
           l \in Labels, sc \in Scores }

\* ---- operations ------------------------------------------------------------
\* a caller runs calculate_fusion_emotion(text_data, voice_data, face_data)
CalculateFusionEmotion ==
    \E t \in ModalityValues("text"), v \in ModalityValues("voice"),
       f \in ModalityValues("face") :
        LET data == [text |-> t, voice |-> v, face |-> f] IN
        /\ fusionCall = None
        /\ fusionCall' = [op |-> "calculate_fusion_emotion", data |-> data]
        /\ fusionOut' = calculate_fusion_emotion(data)
        /\ UNCHANGED exceptFusion

\* request bodies: text absent, empty or given; the flags are not read
FusionInputs ==
    [user_id : {"u1"}, text : {NoneStr, "", "I feel sad"},
     has_voice : BOOLEAN, has_face : BOOLEAN]

\* what response.json() gives: not a JSON object, or an object with or
\* without a "result" member
TextServiceBodies ==
    {[tag |-> "invalid"], Dict(EmptyItems)}
    \cup { Dict([k \in {"result"} |-> r]) : r \in ModalityValues("text") }

\* what the POST to the text service does
TextServiceReplies ==
    {[kind |-> "raises"]}
    \cup [kind : {"response"}, status_code : {200, 404, 500},
          body : TextServiceBodies]

NotCalled == [kind |-> "not_called"]

\* a client posts to /v1/analyze/fusion
AnalyzeFusion ==
    \E input_data \in FusionInputs, reply \in TextServiceReplies :
        /\ fusionCall = None
        /\ fusionCall' = [op |-> "analyze_fusion", input_data |-> input_data,
                          reply |-> IF TextSupplied(input_data.text)
                                    THEN reply ELSE NotCalled]
        /\ fusionOut' = analyze_fusion(input_data, reply)
        /\ UNCHANGED exceptFusion

\* ------------------------------------------------------------------------
\* text_service/temporal_analyzer.py
\* ------------------------------------------------------------------------
\* self.emotion_weights, in tenths
emotion_weights ==
    [joy |-> 10, neutral |-> 5, surprise |-> 6, sadness |-> -5,
     anger |-> -8, fear |-> -7, disgust |-> -6]

HoursPerDay == 24

\* datetime.isoformat(): the text of a timestamp, kept as its date and hour
isoformat(t) == [date |-> t \div HoursPerDay, hour |-> t % HoursPerDay]

\* get_emotion_history(user_id, days): the rows of the user created at or
\* after now - days, ordered by created_at (rows are inserted at the current
\* clock, which never goes back, so insertion order is created_at order)
RECURSIVE get_emotion_history(_, _, _, _)
get_emotion_history(rows, user_id, now, days) ==
    IF rows = <<>> THEN <<>>
    ELSE LET record == Head(rows)
             rest == get_emotion_history(Tail(rows), user_id, now, days)
         IN IF record.user_id = user_id
               /\ record.created_at >= now - days * HoursPerDay
            THEN <<[timestamp |-> isoformat(record.created_at),
                    emotion |-> record.emotion_label,
                    score |-> record.emotion_score,
                    confidence |-> record.confidence,
                    text |-> record.input_text]>> \o rest
            ELSE rest

\* self.emotion_weights.get(r['emotion'], 0) * r['score'], in hundredths
EmotionValue(r) ==
    (IF r.emotion \in DOMAIN emotion_weights
     THEN emotion_weights[r.emotion] ELSE 0) * r.score

\* [EmotionValue(r) for r in history]
EmotionValues(history) == [i \in 1..Len(history) |-> EmotionValue(history[i])]

RECURSIVE SumSeq(_)
SumSeq(xs) == IF xs = <<>> THEN 0 ELSE Head(xs) + SumSeq(Tail(xs))

RECURSIVE SumSquares(_)
SumSquares(xs) ==
    IF xs = <<>> THEN 0 ELSE Head(xs) * Head(xs) + SumSquares(Tail(xs))

\* xs[-n:]
LastN(xs, n) == IF Len(xs) <= n THEN xs ELSE SubSeq(xs, Len(xs) - n + 1, Len(xs))

\* statistics.mean of values given in hundredths
Mean(xs) == Frac(SumSeq(xs), 100 * Len(xs))

FracMul(a, b) == Frac(a.num * b.num, a.den * b.den)

ForecastMinRecords == 10

\* how many of the values xs are v
CountOf(xs, v) == Len(SelectSeq(xs, LAMBDA x : x = v))

\* the halves whose means differ by exactly 0.2 and on which the comparison of
\* the binary floating-point means does not come out as a tie: each half is
\* given by how many values 0.8, 0.6 and -0.3 it holds (0.6 * -0.5 and
\* 0.5 * -0.6 are the same double).  With the first half all 0.8 and the
\* second half all 0.6 the means are 0.8 and 0.6, and 0.8 - 0.2 is
\* 0.6000000000000001 in doubles.
FloatTieDirection(first, second) ==
    LET Contents(xs) == <<CountOf(xs, 80), CountOf(xs, 60), CountOf(xs, -30)>>
        c == <<Contents(first), Contents(second)>>
    IN IF CountOf(first, 80) = Len(first) /\ CountOf(second, 60) = Len(second)
       THEN "declining"
       ELSE IF c \in { <<<<1, 5, 2>>, <<0, 5, 4>>>>, <<<<1, 8, 1>>, <<0, 7, 3>>>> }
       THEN "declining"
       ELSE IF c = <<<<5, 0, 4>>, <<5, 2, 2>>>> THEN "improving"
       ELSE "stable"

\* _predict_emotion_trend(history)
predict_emotion_trend(history) ==
    IF Len(history) < ForecastMinRecords THEN [status |-> "insufficient_data"]
    ELSE LET recent_values == EmotionValues(LastN(history, 20))
             half == Len(recent_values) \div 2
             first == SubSeq(recent_values, 1, half)
             second == SubSeq(recent_values, half + 1, Len(recent_values))
             \* second_half > first_half + 0.2, cross-multiplied; the means
             \* are doubles, which decides the exact ties
             s1 == SumSeq(first) * Len(second)
             s2 == SumSeq(second) * Len(first)
             margin == 20 * Len(first) * Len(second)
             trend_direction ==
                 IF Len(recent_values) < 5 THEN "stable"
                 ELSE IF s2 > s1 + margin THEN "improving"
                 ELSE IF s2 < s1 - margin THEN "declining"
                 ELSE IF s2 = s1 + margin \/ s2 = s1 - margin
                      THEN FloatTieDirection(first, second)
                 ELSE "stable"
             current_avg == Mean(LastN(recent_values, 5))
         IN [trend_direction |-> trend_direction,
             current_mood_score |-> Round2(current_avg),
             predicted_24h |-> Round2(FracMul(current_avg, Frac(95, 100))),
             predicted_48h |-> Round2(FracMul(current_avg, Frac(9, 10))),
             confidence |-> IF Len(recent_values) >= 15
                            THEN Frac(7, 10) ELSE Frac(5, 10)]

\* statistics.variance of values given in hundredths (at least two values)
Variance(xs) ==
    Frac(Len(xs) * SumSquares(xs) - SumSeq(xs) * SumSeq(xs),
         Len(xs) * (Len(xs) - 1) * 10000)

\* variant that appends every value to every bucket
BucketValuesUnkeyed(history, field, k) == EmotionValues(history)

\* the values appended to one bucket of a defaultdict(list), in history order
BucketValues(history, field, k) ==
    EmotionValues(SelectSeq(history, LAMBDA r : r.timestamp[field] = k))

\* _create_temporal_heatmap(history)
create_temporal_heatmap(history) ==
    LET DayKey(r) == r.timestamp.date
        HourKey(r) == r.timestamp.hour
        days == { DayKey(history[i]) : i \in 1..Len(history) }
        hours == { HourKey(history[i]) : i \in 1..Len(history) }
    IN [daily |->
           [d \in days |->
               LET values == BucketValues(history, "date", d) IN
               [average_mood |-> Round2(Mean(values)),
                count |-> Len(values),
                variance |-> Round2(IF Len(values) > 1 THEN Variance(values)
                                    ELSE Frac(0, 1))]],
        hourly |->
           [h \in hours |->
               LET values == BucketValues(history, "hour", h) IN
               [average_mood |-> Round2(Mean(values)),
                count |-> Len(values)]]]

trigger_keywords ==
    << [category |-> "work",
        keywords |-> << <<"w","o","r","k">>,
                      <<"j","o","b">>,
                      <<"b","o","s","s">>,
                      <<"d","e","a","d","l","i","n","e">>,
                      <<"m","e","e","t","i","n","g">>,
                      <<"p","r","o","j","e","c","t">> >>],
       [category |-> "relationships",
        keywords |-> << <<"r","e","l","a","t","i","o","n","s","h","i","p">>,
                      <<"p","a","r","t","n","e","r">>,
                      <<"f","a","m","i","l","y">>,
                      <<"f","r","i","e","n","d">>,
                      <<"a","l","o","n","e">>,
                      <<"l","o","n","e","l","y">> >>],
       [category |-> "health",
        keywords |-> << <<"s","i","c","k">>,
                      <<"p","a","i","n">>,
                      <<"t","i","r","e","d">>,
                      <<"e","x","h","a","u","s","t","e","d">>,
                      <<"s","l","e","e","p">>,
                      <<"i","n","s","o","m","n","i","a">> >>],
       [category |-> "financial",
        keywords |-> << <<"m","o","n","e","y">>,
                      <<"d","e","b","t">>,
                      <<"b","i","l","l","s">>,
                      <<"f","i","n","a","n","c","i","a","l">>,
                      <<"b","r","o","k","e">>,
                      <<"e","x","p","e","n","s","i","v","e">> >>],
       [category |-> "time",
        keywords |-> << <<"l","a","t","e">>,
                      <<"n","i","g","h","t">>,
                      <<"m","o","r","n","i","n","g">>,
                      <<"e","v","e","n","i","n","g">>,
                      <<"w","e","e","k","e","n","d">> >>] >>

AnomalyMinRecords == 10

\* floor(num * f1 * f2 * ... / den) for the factors f, by long division
RECURSIVE ScaledFloor(_, _, _, _)
ScaledFloor(q, r, den, factors) ==
    IF factors = <<>> THEN [q |-> q, r |-> r]
    ELSE ScaledFloor(Head(factors) * q + (Head(factors) * r) \div den,
                     (Head(factors) * r) % den, den, Tail(factors))

\* floor(sqrt(n))
RECURSIVE Isqrt(_)
Isqrt(n) ==
    IF n < 2 THEN n
    ELSE LET s == 2 * Isqrt(n \div 4)
         IN IF (s + 1) * (s + 1) <= n THEN s + 1 ELSE s

\* round(z, 2) for z = sqrt(zsq) >= 0: with s = floor(200 * z) the nearest
\* number of hundredths is (s + 1) div 2, an exact half going to the even one
RoundSqrt2(zsq) ==
    LET f == ScaledFloor(zsq.num \div zsq.den, zsq.num % zsq.den, zsq.den,
                         <<10, 10, 10, 10, 4>>)
        s == Isqrt(f.q)
        k == (s + 1) \div 2
        tie == f.r = 0 /\ s * s = f.q /\ s % 2 = 1
    IN Frac(IF tie /\ k % 2 = 1 THEN k - 1 ELSE k, 100)

\* record['text'][:100]
Preview(text) == IF Len(text) <= 100 THEN text ELSE SubSeq(text, 1, 100)

\* what Python raises on a division by zero
ZeroDivisionError == [raised |-> "ZeroDivisionError"]

\* the z-score without the test of std_dev
ZScoreSquaredUnguarded(value, n, S, Q) ==
    IF n * Q - S * S = 0 THEN ZeroDivisionError
    ELSE Frac((n * value - S) * (n * value - S) * (n - 1), n * (n * Q - S * S))

\* z_score * z_score for one value; S and Q are the sum and the sum of squares
\* of all n values (hundredths), so that
\*   mean = S/n, std_dev^2 = (n*Q - S*S) / (n*(n-1)),
\*   z^2 = (n*value - S)^2 * (n-1) / (n * (n*Q - S*S));
\* std_dev is 0.5 for a single value, and z_score is 0 when std_dev is 0
ZScoreSquared(value, n, S, Q) ==
    IF n > 1 /\ n * Q - S * S > 0
    THEN Frac((n * value - S) * (n * value - S) * (n - 1), n * (n * Q - S * S))
    ELSE IF n > 1 THEN Frac(0, 1)
    ELSE Frac((value - S) * (value - S), 2500)

\* the loop of _detect_anomalies over history[-20:], from record i on
RECURSIVE AnomalyLoop(_, _, _, _, _)
AnomalyLoop(recent, i, n, S, Q) ==
    IF i > Len(recent) THEN <<>>
    ELSE LET record == recent[i]
             z_sq == ZScoreSquared(EmotionValue(record), n, S, Q)
             rest == AnomalyLoop(recent, i + 1, n, S, Q)
         IN IF z_sq.num > 4 * z_sq.den
            THEN <<[timestamp |-> record.timestamp,
                    emotion |-> record.emotion,
                    severity |-> IF z_sq.num > 9 * z_sq.den
                                 THEN "high" ELSE "medium",
                    deviation |-> RoundSqrt2(z_sq),
                    text_preview |-> Preview(record.text)]>> \o rest
            ELSE rest

\* whether _detect_anomalies(history) ends in an exception, and in which
AnomaliesRaised(history) ==
    LET all_values == EmotionValues(history)
        recent == LastN(history, 20)
    IN IF /\ Len(history) >= AnomalyMinRecords
          /\ \E i \in 1..Len(recent) :
                ZScoreSquared(EmotionValue(recent[i]), Len(all_values),
                              SumSeq(all_values), SumSquares(all_values))
                    = ZeroDivisionError
       THEN ZeroDivisionError.raised ELSE NoneStr

\* variant that checks every record of the history, not the last 20
detect_anomalies_whole_history(history) ==
    IF Len(history) < AnomalyMinRecords THEN <<>>
    ELSE LET all_values == EmotionValues(history)
         IN AnomalyLoop(history, 1, Len(all_values),
                        SumSeq(all_values), SumSquares(all_values))

\* _detect_anomalies(history), when it returns
detect_anomalies(history) ==
    IF Len(history) < AnomalyMinRecords THEN <<>>
    ELSE LET all_values == EmotionValues(history)
         IN AnomalyLoop(LastN(history, 20), 1, Len(all_values),
                        SumSeq(all_values), SumSquares(all_values))

NegativeEmotions == {"sadness", "anger", "fear", "disgust"}

\* how often the body of `if keyword in text_lower:` runs for one text and
\* one category: once for every keyword of the category found in the text
HitsInText(text, c) ==
    Cardinality({ k \in 1..Len(trigger_keywords[c].keywords) :
                    Contains(trigger_keywords[c].keywords[k], Lower(text)) })

\* the texts the table is filled with, and HitsInText tabulated for them
SampleTextA == <<"l","a","t","e"," ","m","e","e","t","i","n","g"," ","a","t"," ","w","o","r","k">>
SampleTextB == <<"t","i","r","e","d"," ","a","n","d"," ","a","l","o","n","e">>
SampleTextC == <<"w","o","r","k"," ","j","o","b"," ","b","o","s","s"," ","p","a","r","t","n","e","r"," ","f","a","m","i","l","y"," ","f","r","i","e","n","d">>
SampleTextD == <<"w","o","r","k"," ","f","r","i","e","n","d">>
SampleTextE == <<"l","a","t","e"," ","n","i","g","h","t">>
SampleTextF == <<"a","l","o","n","e">>
SampleTexts ==
    {SampleTextA, SampleTextB, SampleTextC, SampleTextD, SampleTextE, SampleTextF}

SampleHits ==
    [text \in SampleTexts |-> [c \in 1..Len(trigger_keywords) |-> HitsInText(text, c)]]

Hits(record, c) ==
    IF record.text \in SampleTexts THEN SampleHits[record.text][c]
    ELSE HitsInText(record.text, c)

\* x repeated n times
Repeat(x, n) == [i \in 1..n |-> x]

\* the contexts the loop would append for category c if the list were not
\* capped, in the order of the appends, over the records from i on
RECURSIVE ContextsFrom(_, _, _)
ContextsFrom(history, c, i) ==
    IF i > Len(history) THEN <<>>
    ELSE Repeat([text |-> Preview(history[i].text),
                 emotion |-> history[i].emotion,
                 timestamp |-> history[i].timestamp],
                Hits(history[i], c))
         \o ContextsFrom(history, c, i + 1)

\* the entry trigger_counts[category] after the loops over history: count is
\* incremented once per run of the body, negative_emotions once per run on a
\* record with a negative emotion, contexts keeps the first 3 appends
TriggerEntry(history, c) ==
    LET hits == [i \in 1..Len(history) |-> Hits(history[i], c)]
        negative_hits ==
            [i \in 1..Len(history) |->
                IF history[i].emotion \in NegativeEmotions THEN hits[i] ELSE 0]
        contexts == ContextsFrom(history, c, 1)
    IN [category |-> trigger_keywords[c].category,
        count |-> SumSeq(hits),
        negative_emotions |-> SumSeq(negative_hits),
        contexts |-> IF Len(contexts) <= 3 THEN contexts
                     ELSE SubSeq(contexts, 1, 3)]

\* the first record in which category c is matched, 0 when there is none
FirstMatch(history, c) ==
    IF \A i \in 1..Len(history) : Hits(history[i], c) = 0 THEN 0
    ELSE CHOOSE i \in 1..Len(history) :
            /\ Hits(history[i], c) > 0
            /\ \A j \in 1..(i - 1) : Hits(history[j], c) = 0

\* trigger_counts after the loops, as the sequence of its entries in
\* insertion order: a category is inserted when it is first matched, so the
\* entries are ordered by first matching record, then by the order of
\* trigger_keywords
RECURSIVE EntriesInOrder(_, _)
EntriesInOrder(history, cats) ==
    IF cats = {} THEN <<>>
    ELSE LET c == CHOOSE x \in cats :
                    \A y \in cats :
                        \/ FirstMatch(history, x) < FirstMatch(history, y)
                        \/ (FirstMatch(history, x) = FirstMatch(history, y) /\ x <= y)
         IN <<TriggerEntry(history, c)>> \o EntriesInOrder(history, cats \ {c})

RecordLoop(history) ==
    EntriesInOrder(history, { c \in 1..Len(trigger_keywords) :
                                FirstMatch(history, c) > 0 })

\* the significant triggers, in the order of trigger_counts
RECURSIVE SignificantTriggers(_, _)
SignificantTriggers(trigger_counts, i) ==
    IF i > Len(trigger_counts) THEN <<>>
    ELSE LET data == trigger_counts[i]
             rest == SignificantTriggers(trigger_counts, i + 1)
         IN \* negative_ratio > 0.3, and > 0.7 for high
            IF data.count >= 3 /\ 10 * data.negative_emotions > 3 * data.count
            THEN <<[category |-> data.category,
                    frequency |-> data.count,
                    negative_correlation |->
                        RoundFrac(Frac(100 * data.negative_emotions, data.count), 10),
                    severity |-> IF 10 * data.negative_emotions > 7 * data.count
                                 THEN "high" ELSE "medium",
                    sample_contexts |-> data.contexts]>> \o rest
            ELSE rest

\* sorted(triggers, key=negative_correlation, reverse=True): stable
RECURSIVE SortTriggers(_)
SortTriggers(triggers) ==
    IF triggers = <<>> THEN <<>>
    ELSE LET sorted == SortTriggers(Tail(triggers))
             x == Head(triggers)
             \* x goes before every later element that is not strictly larger
             before == SelectSeq(sorted, LAMBDA y :
                           y.negative_correlation.num > x.negative_correlation.num)
             after == SelectSeq(sorted, LAMBDA y :
                           y.negative_correlation.num <= x.negative_correlation.num)
         IN before \o <<x>> \o after

\* _detect_triggers(history)
detect_triggers(history) ==
    SortTriggers(SignificantTriggers(RecordLoop(history), 1))

\* off-by-one variant of the threshold
AnalyzeMinRecordsLow == 5 - 1

AnalyzeMinRecords == 5

\* analyze_patterns on the history get_emotion_history returned
analyze_history(history) ==
    IF Len(history) < AnalyzeMinRecords
    THEN [status |-> "insufficient_data",
          message |-> "Need at least 5 emotion records for pattern analysis"]
    ELSE [status |-> "success",
          temporal_heatmap |-> create_temporal_heatmap(history),
          detected_triggers |-> detect_triggers(history),
          forecast_48h |-> predict_emotion_trend(history),
          anomalies |-> detect_anomalies(history),
          total_records |-> Len(history),
          analysis_period_days |-> 30]

\* whether analyze_patterns ends in an exception on that history, and in which
AnalyzeRaised(history) ==
    IF Len(history) < AnalyzeMinRecords THEN NoneStr ELSE AnomaliesRaised(history)

\* analyze_patterns(user_id) on the table `rows` at time `now`
analyze_patterns(rows, user_id, now) ==
    analyze_history(get_emotion_history(rows, user_id, now, 30))

\* ---- inputs --------------------------------------------------------------
UserIdsOfTable == {1, 2}

\* what the text service stores for one analysed text (scores in tenths)
TextAnalysisSamples ==
    { [emotion_label |-> "joy", emotion_score |-> 8, confidence |-> 9,
       input_text |-> SampleTextA],
      [emotion_label |-> "sadness", emotion_score |-> 6, confidence |-> 7,
       input_text |-> SampleTextB] }

\* the clock step that takes every stored row out of the 30-day window
StaleJump == 31 * HoursPerDay + 1

\* ---- operations ------------------------------------------------------------
\* analyze_text stores a row for the user; created_at is the time of the
\* insert.  Rows of the second user are stored among the first MaxOtherRows.
InsertTextAnalysis ==
    \E user_id \in UserIdsOfTable, sample \in TextAnalysisSamples :
        /\ temporalCall = None
        /\ Len(text_analyses) < MaxRecords
        /\ user_id # 1 => Len(text_analyses) < MaxOtherRows
        /\ text_analyses' =
               Append(text_analyses,
                      [user_id |-> user_id, created_at |-> clock,
                       emotion_label |-> sample.emotion_label,
                       emotion_score |-> sample.emotion_score,
                       confidence |-> sample.confidence,
                       input_text |-> sample.input_text])
        /\ UNCHANGED <<clock, temporalCall, temporalOut, exceptTemporal>>

\* time passes: more than 30 days go by
AdvanceClock ==
    /\ temporalCall = None
    /\ Len(text_analyses) <= MaxStaleRows
    /\ clock < StaleJump
    /\ clock' = clock + StaleJump
    /\ UNCHANGED <<text_analyses, temporalCall, temporalOut, exceptTemporal>>

\* the history endpoint runs analyze_patterns(user_id)
AnalyzePatterns ==
    \E user_id \in UserIdsOfTable :
        LET history == get_emotion_history(text_analyses, user_id, clock, 30) IN
        /\ temporalCall = None
        /\ temporalCall' = [op |-> "analyze_patterns", user_id |-> user_id,
                            history |-> history, raised |-> AnalyzeRaised(history)]
        /\ temporalOut' = IF AnalyzeRaised(history) # NoneStr THEN None
                          ELSE analyze_patterns(text_analyses, user_id, clock)
        /\ UNCHANGED <<text_analyses, clock, exceptTemporal>>

\* _predict_emotion_trend is run on the history of a user
PredictEmotionTrend ==
    \E user_id \in UserIdsOfTable :
        LET history == get_emotion_history(text_analyses, user_id, clock, 30) IN
        /\ temporalCall = None
        /\ temporalCall' = [op |-> "predict_emotion_trend", user_id |-> user_id,
                            history |-> history, raised |-> NoneStr]
        /\ temporalOut' = predict_emotion_trend(history)
        /\ UNCHANGED <<text_analyses, clock, exceptTemporal>>

\* _detect_anomalies is run on the history of a user
DetectAnomalies ==
    \E user_id \in UserIdsOfTable :
        LET history == get_emotion_history(text_analyses, user_id, clock, 30) IN
        /\ temporalCall = None
        /\ temporalCall' = [op |-> "detect_anomalies", user_id |-> user_id,
                            history |-> history, raised |-> AnomaliesRaised(history)]
        /\ temporalOut' = IF AnomaliesRaised(history) # NoneStr THEN None
                          ELSE detect_anomalies(history)
        /\ UNCHANGED <<text_analyses, clock, exceptTemporal>>

\* ---- long series ------------------------------------------------------------
\* what the text service stores in a long series of analysed texts, in the
\* order in which the kinds of text follow each other in the series
SeriesSamples ==
    << [emotion_label |-> "sadness", emotion_score |-> 6, confidence |-> 7,
        input_text |-> SampleTextC],
       [emotion_label |-> "joy", emotion_score |-> 8, confidence |-> 9,
        input_text |-> SampleTextD],
       [emotion_label |-> "joy", emotion_score |-> 6, confidence |-> 9,
        input_text |-> SampleTextE],
       [emotion_label |-> "disgust", emotion_score |-> 5, confidence |-> 7,
        input_text |-> SampleTextF] >>

\* the place in SeriesSamples of the sample a stored row was made from
SampleOfRow(row) ==
    CHOOSE k \in 1..Len(SeriesSamples) :
        /\ SeriesSamples[k].emotion_label = row.emotion_label
        /\ SeriesSamples[k].emotion_score = row.emotion_score
        /\ SeriesSamples[k].input_text = row.input_text

\* analyze_text stores a row for user 1; the series goes through the kinds of
\* text of SeriesSamples in order, each kind any number of times
InsertSeriesAnalysis ==
    \E k \in 1..Len(SeriesSamples) :
        /\ temporalCall = None
        /\ Len(text_analyses) < MaxSeries
        /\ text_analyses # <<>> => SampleOfRow(text_analyses[Len(text_analyses)]) <= k
        /\ text_analyses' =
               Append(text_analyses,
                      [user_id |-> 1, created_at |-> clock,
                       emotion_label |-> SeriesSamples[k].emotion_label,
                       emotion_score |-> SeriesSamples[k].emotion_score,
                       confidence |-> SeriesSamples[k].confidence,
                       input_text |-> SeriesSamples[k].input_text])
        /\ UNCHANGED <<clock, temporalCall, temporalOut, exceptTemporal>>

\* _detect_triggers is run on the history of a user
DetectTriggers ==
    \E user_id \in UserIdsOfTable :
        LET history == get_emotion_history(text_analyses, user_id, clock, 30) IN
        /\ temporalCall = None
        /\ temporalCall' = [op |-> "detect_triggers", user_id |-> user_id,
                            history |-> history, raised |-> NoneStr]
        /\ temporalOut' = detect_triggers(history)
        /\ UNCHANGED <<text_analyses, clock, exceptTemporal>>

\* ---- records spread over days and hours --------------------------------------
MaxHeatRows == 3
MaxHeatHours == 48

\* the hours that pass between two analysed texts: some hours, or a whole day
HeatSteps == {9, HoursPerDay}

\* analyze_text stores a row for user 1 at the time of the insert
InsertTimedAnalysis ==
    \E sample \in TextAnalysisSamples :
        /\ temporalCall = None
        /\ Len(text_analyses) < MaxHeatRows
        /\ text_analyses' =
               Append(text_analyses,
                      [user_id |-> 1, created_at |-> clock,
                       emotion_label |-> sample.emotion_label,
                       emotion_score |-> sample.emotion_score,
                       confidence |-> sample.confidence,
                       input_text |-> sample.input_text])
        /\ UNCHANGED <<clock, temporalCall, temporalOut, exceptTemporal>>

\* time passes between two analysed texts
HeatClock ==
    \E step \in HeatSteps :
        /\ temporalCall = None
        /\ clock + step <= MaxHeatHours
        /\ clock' = clock + step
        /\ UNCHANGED <<text_analyses, temporalCall, temporalOut, exceptTemporal>>

\* _create_temporal_heatmap is run on the history of a user
CreateTemporalHeatmap ==
    \E user_id \in UserIdsOfTable :
        LET history == get_emotion_history(text_analyses, user_id, clock, 30) IN
        /\ temporalCall = None
        /\ temporalCall' = [op |-> "create_temporal_heatmap", user_id |-> user_id,
                            history |-> history, raised |-> NoneStr]
        /\ temporalOut' = create_temporal_heatmap(history)
        /\ UNCHANGED <<text_analyses, clock, exceptTemporal>>

\* the caller takes the result of the temporal call
TemporalReturn ==
    /\ temporalCall # None
    /\ temporalCall' = None
    /\ temporalOut' = None
    /\ UNCHANGED <<text_analyses, clock, exceptTemporal>>

\* ------------------------------------------------------------------------
\* Wellness calculator (backend/shared/wellness_calculator.py)
\* A factor is a number of tenths (50.0 is 500), a category score a number of
\* hundredths, the weighted sum a number of ten-thousandths.
\* ------------------------------------------------------------------------
\* WellnessFactors(): the defaults of the fields
DefaultFactors ==
    [mood_score |-> 500, anxiety_level |-> 500, stress_level |-> 500,
     sleep_quality |-> 500, exercise_frequency |-> 500,
     social_interaction |-> 500,
     medication_adherence |-> 1000, therapy_attendance |-> 1000,
     meditation_practice |-> 0, journaling_frequency |-> 0,
     substance_use |-> 0, self_harm_thoughts |-> 0]

\* category weights, in hundredths
WEIGHTS ==
    [emotional |-> 30, behavioral |-> 25, treatment |-> 20, self_care |-> 15,
     risk |-> 10]

\* anxiety taken as it is, not inverted
calculate_emotional_score_plain(factors) ==
    factors.mood_score * 4 + factors.anxiety_level * 3
        + (1000 - factors.stress_level) * 3

calculate_emotional_score(factors) ==
    factors.mood_score * 4 + (1000 - factors.anxiety_level) * 3
        + (1000 - factors.stress_level) * 3

calculate_behavioral_score(factors) ==
    factors.sleep_quality * 4 + factors.exercise_frequency * 3
        + factors.social_interaction * 3

calculate_treatment_score(factors) ==
    factors.medication_adherence * 5 + factors.therapy_attendance * 5

calculate_self_care_score(factors) ==
    factors.meditation_practice * 5 + factors.journaling_frequency * 5

\* the risk total taken whole, not halved
calculate_risk_score_whole(factors) ==
    10000 - 10 * (factors.substance_use + factors.self_harm_thoughts)

\* 100 - (risk_total / 2)
calculate_risk_score(factors) ==
    10000 - 5 * (factors.substance_use + factors.self_harm_thoughts)

\* round(x, 1)
Round1(x) == RoundFrac(x, 10)

\* `if cond: xs.append(message)` as the piece appended
AppendIf(cond, message) == IF cond THEN <<message>> ELSE <<>>

\* _identify_strengths(category_scores); scores in hundredths
identify_strengths(category_scores) ==
    LET strengths ==
            AppendIf(category_scores.emotional > 7000, "Strong emotional well-being")
            \o AppendIf(category_scores.behavioral > 7000, "Healthy lifestyle habits")
            \o AppendIf(category_scores.treatment > 7000, "Excellent treatment adherence")
            \o AppendIf(category_scores.self_care > 5000, "Active self-care practice")
            \o AppendIf(category_scores.risk > 8000, "Low risk factors")
    IN IF strengths # <<>> THEN strengths
       ELSE <<"Making progress in your wellness journey">>

\* _identify_improvements(category_scores)
identify_improvements(category_scores) ==
    AppendIf(category_scores.emotional < 5000, "Emotional regulation")
    \o AppendIf(category_scores.behavioral < 5000, "Lifestyle habits")
    \o AppendIf(category_scores.treatment < 7000, "Treatment adherence")
    \o AppendIf(category_scores.self_care < 3000, "Self-care practices")
    \o AppendIf(category_scores.risk < 7000, "Risk management")

\* what is appended to recommendations before the fallback; factors in tenths
TriggeredRecommendations(factors) ==
    AppendIf(factors.sleep_quality < 500,
             "Focus on improving sleep hygiene - aim for 7-9 hours")
    \o AppendIf(factors.exercise_frequency < 500,
                "Increase physical activity - even 15 minutes daily helps")
    \o AppendIf(factors.meditation_practice < 300,
                "Try daily meditation or mindfulness exercises")
    \o AppendIf(factors.social_interaction < 500,
                "Engage in social activities to boost mood")
    \o AppendIf(factors.anxiety_level > 700,
                "Practice anxiety management techniques")
    \o AppendIf(factors.stress_level > 700,
                "Implement stress reduction strategies")

\* variant that returns the whole list
generate_recommendations_uncapped(factors) ==
    IF TriggeredRecommendations(factors) = <<>>
    THEN <<"Continue your current wellness practices">>
    ELSE TriggeredRecommendations(factors)

\* _generate_recommendations(factors, category_scores): recommendations[:5]
generate_recommendations(factors) ==
    LET recommendations ==
            IF TriggeredRecommendations(factors) = <<>>
            THEN <<"Continue your current wellness practices">>
            ELSE TriggeredRecommendations(factors)
    IN IF Len(recommendations) <= 5 THEN recommendations
       ELSE SubSeq(recommendations, 1, 5)

\* the outcome of the comparisons of doubles where current_score is exactly
\* 5 away from recent_avg: against the historical scores 7.7, 7.7 the
\* weighted sum that is 2.7 in exact terms is the double 2.6999999999999997,
\* below recent_avg - 5 = 2.7
FloatTrendAtTie(current_score, recent) ==
    IF current_score = 27000 /\ recent = <<77, 77>> THEN "declining" ELSE "stable"

\* _calculate_trend(current_score, historical_scores): current_score in
\* ten-thousandths, historical_scores None or a list of scores in tenths;
\* recent_avg = sum(historical_scores[-3:]) / min(3, len(historical_scores)),
\* and current_score > recent_avg + 5 cross-multiplied
calculate_trend(current_score, historical_scores) ==
    IF historical_scores = None \/ Len(historical_scores.list) < 2 THEN "stable"
    ELSE LET m == Min(3, Len(historical_scores.list))
             recent == LastN(historical_scores.list, 3)
             total == SumSeq(recent)
         IN IF current_score * m > (total + 50 * m) * 1000 THEN "improving"
            ELSE IF current_score * m < (total - 50 * m) * 1000 THEN "declining"
            ELSE IF \/ current_score * m = (total + 50 * m) * 1000
                    \/ current_score * m = (total - 50 * m) * 1000
                 THEN FloatTrendAtTie(current_score, recent)
            ELSE "stable"

\* round(overall_score, 1), overall_score in ten-thousandths: the weighted sum
\* is a double, and where the exact sum ends in 5 hundredths the double can
\* lie on the other side of it than rounding half to even goes: the sums
\* 4.95 come out below (4.9), the sums 59.45 and 88.45 above (59.5, 88.5)
RoundOverall(overall_score) ==
    IF overall_score = 49500 THEN Frac(49, 10)
    ELSE IF overall_score \in {594500, 884500}
    THEN Frac(overall_score \div 1000 + 1, 10)
    ELSE Round1(Frac(overall_score, 10000))

\* calculate_score(factors, historical_scores): the category scores and the
\* weighted overall score of the unrounded category scores, both rounded to
\* one decimal on return; the lists and the trend are made from the
\* unrounded values
calculate_score(factors, historical_scores) ==
    LET category_scores ==
            [emotional |-> calculate_emotional_score(factors),
             behavioral |-> calculate_behavioral_score(factors),
             treatment |-> calculate_treatment_score(factors),
             self_care |-> calculate_self_care_score(factors),
             risk |-> calculate_risk_score(factors)]
        overall_score ==
            category_scores.emotional * WEIGHTS.emotional
              + category_scores.behavioral * WEIGHTS.behavioral
              + category_scores.treatment * WEIGHTS.treatment
              + category_scores.self_care * WEIGHTS.self_care
              + category_scores.risk * WEIGHTS.risk
    IN [overall_score |-> RoundOverall(overall_score),
        category_scores |->
            [k \in DOMAIN category_scores |-> Round1(Frac(category_scores[k], 100))],
        strengths |-> identify_strengths(category_scores),
        areas_for_improvement |-> identify_improvements(category_scores),
        recommendations |-> generate_recommendations(factors),
        trend |-> calculate_trend(overall_score, historical_scores)]

\* ---- inputs --------------------------------------------------------------
\* every factor at its best, and every factor at its worst
BestFactors ==
    [mood_score |-> 1000, anxiety_level |-> 0, stress_level |-> 0,
     sleep_quality |-> 1000, exercise_frequency |-> 1000,
     social_interaction |-> 1000,
     medication_adherence |-> 1000, therapy_attendance |-> 1000,
     meditation_practice |-> 1000, journaling_frequency |-> 1000,
     substance_use |-> 0, self_harm_thoughts |-> 0]

WorstFactors ==
    [mood_score |-> 0, anxiety_level |-> 1000, stress_level |-> 1000,
     sleep_quality |-> 0, exercise_frequency |-> 0, social_interaction |-> 0,
     medication_adherence |-> 0, therapy_attendance |-> 0,
     meditation_practice |-> 0, journaling_frequency |-> 0,
     substance_use |-> 1000, self_harm_thoughts |-> 1000]

\* the values a factor is set to: 0, 33.4, 50 and 100
FactorValues == {0, 334, 500, 1000}

\* the values field is set to: those, and the threshold of its
\* recommendation where that is not among them (30 or 70)
ValuesOf(field) ==
    FactorValues
    \cup (IF field = "meditation_practice" THEN {300}
          ELSE IF field \in {"anxiety_level", "stress_level"} THEN {700}
          ELSE {})

\* a Python list of scores
List(scores) == [list |-> scores]

\* the historical_scores argument: absent, empty, one score, and two to four
\* scores whose last three average 52.5, 52.4, 62.5 or 62.6 (the score of
\* the default factors is 57.5) or 7.7 (the worst factors with anxiety 70
\* score 2.7)
HistoricalScores ==
    { None, List(<<>>), List(<<400>>),
      List(<<525, 525>>), List(<<524, 523, 525>>),
      List(<<625, 625>>), List(<<626, 627, 625>>),
      List(<<1000, 525, 525, 525>>), List(<<0, 0, 575, 575>>),
      List(<<77, 77>>) }

\* ---- operations ------------------------------------------------------------
\* calculate_score(factors) on one of the three factor sets with up to two
\* of its fields set to other values; historical_scores keeps its default
CalculateScore ==
    \E base \in {DefaultFactors, BestFactors, WorstFactors},
       f1 \in DOMAIN DefaultFactors, f2 \in DOMAIN DefaultFactors :
      \E v1 \in ValuesOf(f1), v2 \in ValuesOf(f2) :
        LET factors == [[base EXCEPT ![f1] = v1] EXCEPT ![f2] = v2] IN
        /\ wellnessCall = None
        /\ wellnessCall' = [op |-> "calculate_score", factors |-> factors,
                            historical_scores |-> None,
                            historical_scores_after |-> None]
        /\ wellnessOut' = calculate_score(factors, None)
        /\ UNCHANGED exceptWellness

\* calculate_score(factors, historical_scores) with a list of earlier scores,
\* on one of the three factor sets with up to one field set to another
\* value; the call only reads historical_scores (a slice, sum and len), so
\* the list is afterwards what it was
CalculateScoreWithHistory ==
    \E base \in {DefaultFactors, BestFactors, WorstFactors},
       f1 \in DOMAIN DefaultFactors,
       historical_scores \in HistoricalScores \ {None} :
      \E v1 \in ValuesOf(f1) :
        LET factors == [base EXCEPT ![f1] = v1] IN
        /\ wellnessCall = None
        /\ wellnessCall' = [op |-> "calculate_score", factors |-> factors,
                            historical_scores |-> historical_scores,
                            historical_scores_after |-> historical_scores]
        /\ wellnessOut' = calculate_score(factors, historical_scores)
        /\ UNCHANGED exceptWellness

\* ---- loading the module -------------------------------------------------------
\* the weight tables the class body may hold: the table of the source, and
\* tables with a weight changed by 0.05 up or down
WeightTables ==
    { [k \in DOMAIN WEIGHTS |-> WEIGHTS[k] + delta[k]] :
        delta \in [DOMAIN WEIGHTS -> {-5, 0, 5}] }

\* the module is loaded with the table weights in the class body: the class
\* statement binds WEIGHTS and `wellness_calculator = WellnessCalculator()`
\* builds the instance; nothing reads the table at that point
LoadWellnessCalculator ==
    \E weights \in WeightTables :
        /\ wellnessCall = None
        /\ wellnessCall' = [op |-> "load", weights |-> weights, raised |-> NoneStr]
        /\ wellnessOut' = [WEIGHTS |-> weights]
        /\ UNCHANGED exceptWellness

\* the caller takes the score
WellnessReturn ==
    /\ wellnessCall # None
    /\ wellnessCall' = None
    /\ wellnessOut' = None
    /\ UNCHANGED exceptWellness

\* ------------------------------------------------------------------------
\* In-memory emotion history (backend/ai/text_service/emotion_patterns.py)
\* emotion_history is a defaultdict(list): a function from the user ids that
\* have been looked up to their lists of entries.  Scores are in tenths,
\* timestamps in hours.
\* ------------------------------------------------------------------------
\* collections.defaultdict(list)
EmptyHistory == [u \in {} |-> <<>>]

\* self.emotion_history[user_id]: a missing key is created with an empty list
Lookup(history, user_id) ==
    IF user_id \in DOMAIN history THEN history
    ELSE [u \in DOMAIN history \cup {user_id} |->
             IF u = user_id THEN <<>> ELSE history[u]]

\* variant that appends the entry to the list of every user
add_entry_to_every_list(history, user_id, emotion, score, timestamp, now) ==
    LET looked == Lookup(history, user_id)
    IN [u \in DOMAIN looked |->
           Append(looked[u], [emotion |-> emotion, score |-> score,
                              timestamp |-> IF timestamp = None THEN now
                                            ELSE timestamp.at])]

\* add_entry(user_id, emotion, score, timestamp): the history afterwards; a
\* timestamp is None or [at |-> hours]
add_entry(history, user_id, emotion, score, timestamp, now) ==
    LET looked == Lookup(history, user_id)
    IN [looked EXCEPT ![user_id] =
           Append(@, [emotion |-> emotion, score |-> score,
                      timestamp |-> IF timestamp = None THEN now
                                    ELSE timestamp.at])]

\* sorted(history, key=timestamp) without the stability of the sort: an entry
\* goes before the entries of the same timestamp
RECURSIVE SortedByTimestampUnstable(_)
SortedByTimestampUnstable(entries) ==
    IF entries = <<>> THEN <<>>
    ELSE LET x == entries[Len(entries)]
             sorted == SortedByTimestampUnstable(SubSeq(entries, 1, Len(entries) - 1))
         IN SelectSeq(sorted, LAMBDA y : y.timestamp < x.timestamp)
              \o <<x>> \o SelectSeq(sorted, LAMBDA y : y.timestamp >= x.timestamp)

\* sorted(history, key=lambda x: x["timestamp"]): stable, an entry goes after
\* the earlier entries of the same timestamp
RECURSIVE SortedByTimestamp(_)
SortedByTimestamp(entries) ==
    IF entries = <<>> THEN <<>>
    ELSE LET x == entries[Len(entries)]
             sorted == SortedByTimestamp(SubSeq(entries, 1, Len(entries) - 1))
         IN SelectSeq(sorted, LAMBDA y : y.timestamp <= x.timestamp)
              \o <<x>> \o SelectSeq(sorted, LAMBDA y : y.timestamp > x.timestamp)

\* get_emotion_history(user_id, days): what it returns
pattern_history(history, user_id, days, now) ==
    SortedByTimestamp(
        SelectSeq(Lookup(history, user_id)[user_id],
                  LAMBDA entry : entry.timestamp >= now - days * HoursPerDay))

positive_emotions == {"joy", "surprise", "neutral"}
negative_emotions == {"sadness", "anger", "fear", "disgust"}

\* _calculate_trend(history)
pattern_trend(history) ==
    LET score == Cardinality({ i \in 1..Len(history) :
                                 history[i].emotion \in positive_emotions })
                 - Cardinality({ i \in 1..Len(history) :
                                   history[i].emotion \in negative_emotions })
    IN \* score > len(history) * 0.2, score < -len(history) * 0.2
       IF 10 * score > 2 * Len(history) THEN "improving"
       ELSE IF 10 * score < -2 * Len(history) THEN "worsening"
       ELSE "stable"

\* Counter(emotions).most_common(1)[0][0]: the most frequent emotion, the
\* first one met among the most frequent
dominant_emotion(emotions) ==
    LET Count(e) == Cardinality({ i \in 1..Len(emotions) : emotions[i] = e })
        First(e) == CHOOSE i \in 1..Len(emotions) :
                        /\ emotions[i] = e
                        /\ \A j \in 1..(i - 1) : emotions[j] # e
        seen == { emotions[i] : i \in 1..Len(emotions) }
    IN CHOOSE e \in seen :
           \A f \in seen :
               \/ Count(e) > Count(f)
               \/ (Count(e) = Count(f) /\ First(e) <= First(f))

\* analyze_patterns(user_id) of emotion_patterns.py: what it returns
pattern_analysis(history, user_id, now) ==
    LET entries == pattern_history(history, user_id, 30, now)
        emotions == [i \in 1..Len(entries) |-> entries[i].emotion]
        changes == Cardinality({ i \in 2..Len(emotions) :
                                   emotions[i] # emotions[i - 1] })
    IN IF entries = <<>>
       THEN [dominant_emotion |-> "neutral", volatility |-> Frac(0, 100),
             trend |-> "stable"]
       ELSE [dominant_emotion |-> dominant_emotion(emotions),
             volatility |-> IF Len(emotions) > 1
                            THEN Round2(Frac(changes, Len(emotions)))
                            ELSE Frac(0, 100),
             trend |-> pattern_trend(entries)]

\* ---- inputs --------------------------------------------------------------
PatternUsers == {1, 2}

\* the emotion and score of an add_entry call: a well-formed pair, a score
\* above 1, and a label outside the taxonomy
EntrySamples ==
    { [emotion |-> "joy", score |-> 5],
      [emotion |-> "sadness", score |-> 15],
      [emotion |-> "bored", score |-> 5] }

\* the step of the clock between calls, and the age of a back-dated entry
PatternClockStep == 4 * HoursPerDay
BackDate == 8 * HoursPerDay

\* the `days` arguments of get_emotion_history: the default and a month
HistoryDays == {7, 30}

\* ---- operations ------------------------------------------------------------
\* add_entry(user_id, emotion, score, timestamp) with the timestamp left out
\* or back-dated
AddEntry ==
    \E user_id \in PatternUsers, sample \in EntrySamples,
       timestamp \in {None, [at |-> clock - BackDate]} :
        /\ patternCall = None
        /\ Len(added) < MaxEntries
        /\ emotion_history' =
               add_entry(emotion_history, user_id, sample.emotion, sample.score,
                         timestamp, clock)
        /\ added' = Append(added, [user_id |-> user_id, emotion |-> sample.emotion,
                                   score |-> sample.score,
                                   timestamp |-> IF timestamp = None THEN clock
                                                 ELSE timestamp.at])
        /\ patternCall' = [op |-> "add_entry", user_id |-> user_id,
                           emotion |-> sample.emotion, score |-> sample.score,
                           raised |-> NoneStr]
        /\ patternOut' = None
        /\ UNCHANGED <<clock, exceptPatterns>>

\* get_emotion_history(user_id, days)
GetEmotionHistory ==
    \E user_id \in PatternUsers, days \in HistoryDays :
        /\ patternCall = None
        /\ emotion_history' = Lookup(emotion_history, user_id)
        /\ patternCall' = [op |-> "get_emotion_history", user_id |-> user_id,
                           days |-> days, raised |-> NoneStr]
        /\ patternOut' = pattern_history(emotion_history, user_id, days, clock)
        /\ UNCHANGED <<added, clock, exceptPatterns>>

\* analyze_patterns(user_id) of emotion_patterns.py
PatternAnalyze ==
    \E user_id \in PatternUsers :
        /\ patternCall = None
        /\ emotion_history' = Lookup(emotion_history, user_id)
        /\ patternCall' = [op |-> "analyze_patterns", user_id |-> user_id,
                           raised |-> NoneStr]
        /\ patternOut' = pattern_analysis(emotion_history, user_id, clock)
        /\ UNCHANGED <<added, clock, exceptPatterns>>

\* time passes between two calls, until the first entries are BackDate old
PatternClock ==
    /\ patternCall = None
    /\ clock < BackDate
    /\ clock' = clock + PatternClockStep
    /\ UNCHANGED <<patternVars, exceptPatterns>>

\* ---- concurrent callers -----------------------------------------------------
\* One caller per subject; the callers run their calls at the same time, a
\* step being one statement of the method.  A caller is idle or holds the
\* position in its call and the locals of that call.
Idle == [pc |-> "idle", entry |-> None, now |-> 0, result |-> None]

\* add_entry, lines 11-12: the timestamp is the argument or datetime.now()
ThreadAddEntry(t) ==
    \E sample \in EntrySamples, timestamp \in {None, [at |-> clock - BackDate]} :
        /\ threads[t].pc = "idle"
        /\ Len(added) + Cardinality({ u \in PatternUsers : threads[u].entry # None })
               < MaxEntries
        /\ threads' = [threads EXCEPT ![t] =
                          [pc |-> "lookup",
                           entry |-> [emotion |-> sample.emotion,
                                      score |-> sample.score,
                                      timestamp |-> IF timestamp = None THEN clock
                                                    ELSE timestamp.at],
                           now |-> clock, result |-> None]]
        /\ UNCHANGED <<emotion_history, added, clock, exceptThreads>>

\* add_entry, line 14: self.emotion_history[user_id] finds the list of the
\* user, which the defaultdict creates when the key is missing
ThreadLookup(t) ==
    /\ threads[t].pc = "lookup"
    /\ emotion_history' = Lookup(emotion_history, t)
    /\ threads' = [threads EXCEPT ![t].pc = "append"]
    /\ UNCHANGED <<added, clock, exceptThreads>>

\* add_entry, lines 14-18: .append(entry) on that list
ThreadAppend(t) ==
    /\ threads[t].pc = "append"
    /\ emotion_history' =
           add_entry(emotion_history, t, threads[t].entry.emotion,
                     threads[t].entry.score, [at |-> threads[t].entry.timestamp],
                     threads[t].now)
    /\ added' = Append(added, [user_id |-> t, emotion |-> threads[t].entry.emotion,
                               score |-> threads[t].entry.score,
                               timestamp |-> threads[t].entry.timestamp])
    /\ threads' = [threads EXCEPT ![t] = Idle]
    /\ UNCHANGED <<clock, exceptThreads>>

\* analyze_patterns, line 22 of get_emotion_history: cutoff_date is taken
\* from datetime.now()
ThreadAnalyze(t) ==
    /\ threads[t].pc = "idle"
    /\ threads' = [threads EXCEPT ![t] =
                      [pc |-> "scan", entry |-> None, now |-> clock, result |-> None]]
    /\ UNCHANGED <<emotion_history, added, clock, exceptThreads>>

\* analyze_patterns, lines 24-59: the list of the user is looked up and
\* scanned, and the report is made from the entries found
ThreadScan(t) ==
    /\ threads[t].pc = "scan"
    /\ emotion_history' = Lookup(emotion_history, t)
    /\ threads' = [threads EXCEPT ![t] =
                      [pc |-> "done", entry |-> None, now |-> threads[t].now,
                       result |-> pattern_analysis(emotion_history, t, threads[t].now)]]
    /\ UNCHANGED <<added, clock, exceptThreads>>

\* the caller takes the report
ThreadReturn(t) ==
    /\ threads[t].pc = "done"
    /\ threads' = [threads EXCEPT ![t] = Idle]
    /\ UNCHANGED <<emotion_history, added, clock, exceptThreads>>

\* time passes while the callers run
ThreadClock ==
    /\ clock < BackDate
    /\ clock' = clock + PatternClockStep
    /\ UNCHANGED <<patternVars, threadVars, exceptPatterns>>

\* the caller takes the result
PatternReturn ==
    /\ patternCall # None
    /\ patternCall' = None
    /\ patternOut' = None
    /\ UNCHANGED <<emotion_history, added, clock, exceptPatterns>>

\* ------------------------------------------------------------------------
\* Crisis detector: properties
\* ------------------------------------------------------------------------
AnalyzeCalled == crisisCall # None /\ crisisCall.op = "analyze_message"

IsCrisisResponse(out) ==
    /\ out # None
    /\ out # NameError
    /\ DOMAIN out = {"crisis_level", "detected_indicators", "immediate_actions",
                     "resources", "escalation_required",
                     "emergency_contact_triggered"}

\* positions of the configured indicators whose keyword is a substring of the
\* lower-cased message
MatchedIndicators(message) ==
    { i \in 1..Len(CRISIS_INDICATORS) :
        Contains(CRISIS_INDICATORS[i].keyword, Lower(message)) }

\* M of the severity rule: the largest matched severity, 0 when none matches
MaxMatchedSeverity(message) ==
    IF MatchedIndicators(message) = {} THEN 0
    ELSE CHOOSE m \in { CRISIS_INDICATORS[i].severity : i \in MatchedIndicators(message) } :
            \A i \in MatchedIndicators(message) : CRISIS_INDICATORS[i].severity <= m

\* the matched keywords in table order
RECURSIVE MatchedKeywordsFrom(_, _)
MatchedKeywordsFrom(message, i) ==
    IF i > Len(CRISIS_INDICATORS) THEN <<>>
    ELSE (IF i \in MatchedIndicators(message)
          THEN <<CRISIS_INDICATORS[i].keyword>> ELSE <<>>)
         \o MatchedKeywordsFrom(message, i + 1)

\* C1: a message whose lower-cased text contains the keyword of an indicator of
\* severity >= 9 is answered with crisis_level critical, escalation_required
\* and emergency_contact_triggered, whatever else it contains and whatever
\* user_id is passed.
C1_SevereKeywordIsCritical ==
    (AnalyzeCalled /\ MaxMatchedSeverity(crisisCall.message) >= 9)
        => /\ IsCrisisResponse(crisisOut)
           /\ crisisOut.crisis_level = "critical"
           /\ crisisOut.escalation_required
           /\ crisisOut.emergency_contact_triggered

\* C2: crisis_level is decided by the largest matched severity M (critical from
\* 9, high for 7..8, moderate for 5..6, low for 3..4, none below 3) and
\* detected_indicators is the list of matched keywords.
C2_LevelIsFunctionOfMaxSeverity ==
    AnalyzeCalled =>
        LET M == MaxMatchedSeverity(crisisCall.message) IN
        /\ IsCrisisResponse(crisisOut)
        /\ (M >= 9) => crisisOut.crisis_level = "critical"
        /\ (M \in 7..8) => crisisOut.crisis_level = "high"
        /\ (M \in 5..6) => crisisOut.crisis_level = "moderate"
        /\ (M \in 3..4) => crisisOut.crisis_level = "low"
        /\ (M < 3) => crisisOut.crisis_level = "none"
        /\ crisisOut.detected_indicators = MatchedKeywordsFrom(crisisCall.message, 1)

\* C3: analyze_message produces a CrisisResponse in which escalation_required
\* is set exactly for the levels high and critical and
\* emergency_contact_triggered exactly for critical.
C3_FlagsFollowLevel ==
    AnalyzeCalled =>
        /\ IsCrisisResponse(crisisOut)
        /\ crisisOut.escalation_required
              <=> crisisOut.crisis_level \in {"high", "critical"}
        /\ crisisOut.emergency_contact_triggered
              <=> crisisOut.crisis_level = "critical"

\* C4: analyze_message is total: every string message gets a CrisisResponse,
\* never an error, and the empty message gets level none with no indicators,
\* no actions, no resources and both flags unset.
C4_AnalyzeIsTotal ==
    AnalyzeCalled =>
        /\ IsCrisisResponse(crisisOut)
        /\ crisisCall.message = <<>> =>
              /\ crisisOut.crisis_level = "none"
              /\ crisisOut.detected_indicators = <<>>
              /\ crisisOut.immediate_actions = <<>>
              /\ crisisOut.resources = <<>>
              /\ ~crisisOut.escalation_required
              /\ ~crisisOut.emergency_contact_triggered

\* C5: the classifier is stateless: after any sequence of analyze_message and
\* log_crisis_event calls the shared detector still holds the configured
\* indicator table, and the response to a message is the response a fresh
\* detector gives to it.
C5_DetectorIsStateless ==
    crisisCall # None =>
        /\ crisis_detector # Unbound
        /\ crisis_detector.indicators = CRISIS_INDICATORS
        /\ AnalyzeCalled =>
              /\ IsCrisisResponse(crisisOut)
              /\ crisisOut = DetectorAnalyze(CrisisDetectorInit,
                                             crisisCall.message, crisisCall.user_id)

\* the bundles _generate_response attaches to the four crisis levels
LevelBundles ==
    [critical |-> [immediate_actions |-> CriticalActions, resources |-> CriticalResources],
     high |-> [immediate_actions |-> HighActions, resources |-> HighResources],
     moderate |-> [immediate_actions |-> ModerateActions, resources |-> ModerateResources],
     low |-> [immediate_actions |-> LowActions, resources |-> LowResources]]

ElementsOf(seq) == { seq[i] : i \in 1..Len(seq) }

\* C16: no immediate_actions string and no resources entry of the bundle of
\* one crisis level appears in the bundle of a different level; stated for
\* the level of every analysed message against the other levels.
C16_BundlesDoNotOverlap ==
    AnalyzeCalled =>
        LET a == LevelOfSeverity(MaxMatchedSeverity(crisisCall.message)) IN
        \A b \in DOMAIN LevelBundles :
            (a \in DOMAIN LevelBundles /\ a # b) =>
                /\ ElementsOf(LevelBundles[a].immediate_actions)
                       \cap ElementsOf(LevelBundles[b].immediate_actions) = {}
                /\ ElementsOf(LevelBundles[a].resources)
                       \cap ElementsOf(LevelBundles[b].resources) = {}

\* ------------------------------------------------------------------------
\* Fusion engine: properties
\* ------------------------------------------------------------------------
CalculateCalled ==
    fusionCall # None /\ fusionCall.op = "calculate_fusion_emotion"

EndpointCalled == fusionCall # None /\ fusionCall.op = "analyze_fusion"

\* the modalities whose argument counts as present
Present(data) == { m \in {"text", "voice", "face"} : Truthy(data[m]) }

\* a present modality carries both its label and its score
FullReading(data, m) ==
    {LabelKey[m], ScoreKey[m]} \subseteq DOMAIN data[m].items

ReadingLabel(data, m) == data[m].items[LabelKey[m]]
ReadingScore(data, m) == data[m].items[ScoreKey[m]]

IsFusionTriple(out) ==
    out # None /\ DOMAIN out = {"overall_emotion", "overall_score", "confidence"}

InUnitInterval(x) == x.den > 0 /\ 0 <= x.num /\ x.num <= x.den

\* C6: whatever modalities are present, with scores in [0,1],
\* calculate_fusion_emotion returns overall_score and confidence in [0,1].
C6_FusionOutputsInUnitInterval ==
    CalculateCalled =>
        /\ IsFusionTriple(fusionOut)
        /\ InUnitInterval(fusionOut.overall_score)
        /\ InUnitInterval(fusionOut.confidence)

\* the text reading alone at full score: overall_score reaches 1
C6_Witness ==
    /\ CalculateCalled
    /\ Present(fusionCall.data) = {"text"}
    /\ FullReading(fusionCall.data, "text")
    /\ ReadingScore(fusionCall.data, "text") = 10
    /\ FracEq(fusionOut.overall_score, Frac(1, 1))

\* C7: with exactly one modality present, overall_emotion is its label and
\* overall_score its raw score, for every label and every score in [0,1],
\* score 0 included.
C7_SingleModalityPassesThrough ==
    \A m \in {"text", "voice", "face"} :
        (/\ CalculateCalled
         /\ Present(fusionCall.data) = {m}
         /\ FullReading(fusionCall.data, m))
        => /\ fusionOut.overall_emotion = ReadingLabel(fusionCall.data, m)
           /\ FracEq(fusionOut.overall_score,
                     Frac(ReadingScore(fusionCall.data, m), 10))

\* score * weight of a present modality, in hundredths
ClaimWeighted(data, m) == ReadingScore(data, m) * EMOTION_WEIGHTS[m]

RECURSIVE SumWeights(_)
SumWeights(ms) ==
    IF ms = {} THEN 0
    ELSE LET m == CHOOSE x \in ms : TRUE
         IN EMOTION_WEIGHTS[m] + SumWeights(ms \ {m})

\* C8: for a non-empty set of present modalities, overall_emotion is the label
\* of the modality with the largest score*weight, overall_score is that
\* largest value divided by the summed weight of the present modalities, and
\* confidence is min(summed weight, 1.0).
C8_WeightedMaxDecides ==
    (/\ CalculateCalled
     /\ Present(fusionCall.data) # {}
     /\ \A m \in Present(fusionCall.data) : FullReading(fusionCall.data, m))
    => LET data == fusionCall.data
           P == Present(data)
           top == CHOOSE w \in { ClaimWeighted(data, m) : m \in P } :
                      \A m \in P : ClaimWeighted(data, m) <= w
       IN /\ \E m \in P : /\ ClaimWeighted(data, m) = top
                          /\ fusionOut.overall_emotion = ReadingLabel(data, m)
          /\ FracEq(fusionOut.overall_score, Frac(top, 10 * SumWeights(P)))
          /\ FracEq(fusionOut.confidence, Frac(Min(SumWeights(P), 10), 10))

\* the present modalities holding the largest score*weight
TopModalities(data) ==
    LET P == Present(data) IN
    { m \in P : \A o \in P : ClaimWeighted(data, o) <= ClaimWeighted(data, m) }

\* the first member of ms in the order text, voice, face
FirstInOrder(ms) ==
    Modalities[CHOOSE i \in DOMAIN Modalities :
                   /\ Modalities[i] \in ms
                   /\ \A j \in DOMAIN Modalities : Modalities[j] \in ms => i <= j]

\* two or more present modalities share the largest score*weight
TiedAtTop(data) ==
    /\ \A m \in Present(data) : FullReading(data, m)
    /\ Cardinality(TopModalities(data)) >= 2

\* C17: when two or more present modalities have the same maximum
\* score*weight, calculate_fusion_emotion returns the label of the first of
\* them in the order text, voice, face.
C17_TieGoesToFirstModality ==
    (CalculateCalled /\ TiedAtTop(fusionCall.data))
    => fusionOut.overall_emotion
           = ReadingLabel(fusionCall.data,
                          FirstInOrder(TopModalities(fusionCall.data)))

\* the same statement for ties at a maximum above zero
C17_PositiveTieGoesToFirstModality ==
    (/\ CalculateCalled
     /\ TiedAtTop(fusionCall.data)
     /\ \E m \in Present(fusionCall.data) : ClaimWeighted(fusionCall.data, m) > 0)
    => fusionOut.overall_emotion
           = ReadingLabel(fusionCall.data,
                          FirstInOrder(TopModalities(fusionCall.data)))

IsNeutralDefault(r) ==
    /\ r.overall_emotion = "neutral"
    /\ FracEq(r.overall_score, Frac(1, 2))
    /\ FracEq(r.confidence, Frac(1, 2))

\* C9: with no modality reading, fusion yields (neutral, 0.5, 0.5) as a normal
\* result: calculate_fusion_emotion returns it, and analyze_fusion answers 200
\* with it when no text is supplied, the text-service call raises, or it
\* answers with a status other than 200.
C9_NoModalityGivesNeutralDefault ==
    /\ (CalculateCalled /\ Present(fusionCall.data) = {})
          => IsFusionTriple(fusionOut) /\ IsNeutralDefault(fusionOut)
    /\ (/\ EndpointCalled
        /\ \/ fusionCall.reply.kind \in {"not_called", "raises"}
           \/ fusionCall.reply.status_code # 200)
          => /\ fusionOut.status_code = 200
             /\ IsNeutralDefault(fusionOut.result)

\* the text service answers 500 with a body that carries a result
C9_Witness ==
    /\ EndpointCalled
    /\ fusionCall.reply.kind = "response"
    /\ fusionCall.reply.status_code = 500
    /\ fusionCall.reply.body.tag = "dict"
    /\ Truthy(Get(fusionCall.reply.body, "result", None))
    /\ fusionOut.status_code = 200
    /\ IsNeutralDefault(fusionOut.result)

\* ------------------------------------------------------------------------
\* Temporal analyzer: properties
\* ------------------------------------------------------------------------
InsufficientData == [status |-> "insufficient_data"]

\* C10: with fewer than 5 records analyze_patterns returns the
\* insufficient-data status and none of the heatmap, trigger, forecast and
\* anomaly outputs; with fewer than 10 records the forecast is the
\* insufficient-data marker and detect_anomalies returns the empty list.
C10_MinimumSampleThresholds ==
    temporalCall # None =>
        LET n == Len(temporalCall.history) IN
        /\ n < 10 => temporalCall.raised = NoneStr
        /\ (temporalCall.op = "analyze_patterns" /\ n < 5)
              => /\ DOMAIN temporalOut = {"status", "message"}
                 /\ temporalOut.status = "insufficient_data"
        /\ (temporalCall.op = "analyze_patterns" /\ n >= 5 /\ n < 10)
              => /\ temporalOut.status = "success"
                 /\ temporalOut.forecast_48h = InsufficientData
                 /\ temporalOut.anomalies = <<>>
        /\ (temporalCall.op = "predict_emotion_trend" /\ n < 10)
              => temporalOut = InsufficientData
        /\ (temporalCall.op = "detect_anomalies" /\ n < 10)
              => temporalOut = <<>>

\* nine records: the report is built, and its forecast and anomalies are the
\* insufficient-data marker and the empty list
C10_Witness ==
    /\ temporalCall # None
    /\ temporalCall.op = "analyze_patterns"
    /\ Len(temporalCall.history) = 9
    /\ temporalOut.status = "success"
    /\ temporalOut.total_records = 9
    /\ temporalOut.forecast_48h = InsufficientData
    /\ temporalOut.anomalies = <<>>

\* the signed mood values of the history of the temporal call
CallValues == EmotionValues(temporalCall.history)

\* a history of at least 10 records that all have the same signed mood value
ConstantSeries ==
    /\ temporalCall # None
    /\ Len(temporalCall.history) >= 10
    /\ \A i \in 1..Len(CallValues) : CallValues[i] = CallValues[1]

\* C11: on a history of at least 10 records that all have the same signed
\* mood value detect_anomalies returns no anomalies and does not divide by
\* zero, alone and as a part of analyze_patterns.
C11_ConstantSeriesHasNoAnomalies ==
    ConstantSeries =>
        /\ temporalCall.op = "detect_anomalies"
              => temporalCall.raised = NoneStr /\ temporalOut = <<>>
        /\ temporalCall.op = "analyze_patterns"
              => temporalCall.raised = NoneStr /\ temporalOut.anomalies = <<>>

\* twelve records of two different emotions and one mood value (-0.3)
C11_Witness ==
    /\ ConstantSeries
    /\ temporalCall.op = "detect_anomalies"
    /\ Len(temporalCall.history) = 12
    /\ \E i \in 1..12 : temporalCall.history[i].emotion = "sadness"
    /\ \E i \in 1..12 : temporalCall.history[i].emotion = "disgust"
    /\ temporalOut = <<>>

\* a forecast was computed from a history of at least 10 records
ForecastCalled ==
    /\ temporalCall # None
    /\ temporalCall.op = "predict_emotion_trend"
    /\ Len(temporalCall.history) >= 10

\* the window w of the claim: the last min(n, 20) signed mood values
ForecastWindow ==
    LET n == Len(CallValues) IN SubSeq(CallValues, n - Min(n, 20) + 1, n)

\* first and second of the claim, as sums in hundredths and lengths
FirstHalf == SubSeq(ForecastWindow, 1, Len(ForecastWindow) \div 2)
SecondHalf ==
    SubSeq(ForecastWindow, Len(ForecastWindow) \div 2 + 1, Len(ForecastWindow))

\* mean(SecondHalf) - mean(FirstHalf) compared with d hundredths: the sign of
\* the difference of the two sides
HalfMeansGap(d) ==
    SumSeq(SecondHalf) * Len(FirstHalf)
        - (SumSeq(FirstHalf) + d * Len(FirstHalf)) * Len(SecondHalf)

\* the direction the claim gives
ClaimedDirection ==
    IF HalfMeansGap(20) > 0 THEN "improving"
    ELSE IF HalfMeansGap(-20) < 0 THEN "declining"
    ELSE "stable"

\* C18: for a history of at least 10 records, with w the last min(n, 20)
\* signed mood values, first the mean of the first floor(|w|/2) values and
\* second the mean of the rest, trend_direction is improving iff
\* second > first + 0.2, declining iff second < first - 0.2, and stable
\* otherwise; a difference of exactly 0.2 is stable.
C18_TrendComparesHalfMeans ==
    ForecastCalled => temporalOut.trend_direction = ClaimedDirection

\* the same statement away from differences of exactly 0.2
C18_TrendComparesHalfMeansOffTies ==
    (ForecastCalled /\ HalfMeansGap(20) # 0 /\ HalfMeansGap(-20) # 0)
    => temporalOut.trend_direction = ClaimedDirection

\* detect_anomalies was run on a history of at least 10 records
AnomaliesCalled ==
    /\ temporalCall # None
    /\ temporalCall.op = "detect_anomalies"
    /\ Len(temporalCall.history) >= 10

\* n * (n - 1) * 10000 times the sample variance of the signed mood values
ScaledVariance ==
    Len(CallValues) * SumSquares(CallValues) - SumSeq(CallValues) * SumSeq(CallValues)

\* z(i) > k for record i of the history, z = |value - mean| / stddev taken
\* over the entire history; squared and cross-multiplied
ZAbove(i, k) ==
    LET n == Len(CallValues)
        d == n * CallValues[i] - SumSeq(CallValues)
    IN ScaledVariance > 0 /\ d * d * (n - 1) > k * k * n * ScaledVariance

\* the records the claim has reported: among the last 20, with z > 2
ClaimedAnomalies ==
    LET n == Len(CallValues) IN { i \in 1..n : i > n - 20 /\ ZAbove(i, 2) }

\* the k-th smallest member of a set of numbers
NthOf(I, k) == CHOOSE i \in I : Cardinality({ j \in I : j < i }) = k - 1

\* C19: on a history of at least 10 records detect_anomalies reports a record
\* iff it is among the last 20 records and its z-score, taken with the mean
\* and sample standard deviation of the entire history, is strictly greater
\* than 2; severity is high iff z > 3, else medium; the anomalies are in
\* history order, and records older than the last 20 are never reported.
C19_AnomaliesAreTheRecentOutliers ==
    AnomaliesCalled =>
        /\ temporalCall.raised = NoneStr
        /\ Len(temporalOut) = Cardinality(ClaimedAnomalies)
        /\ \A k \in 1..Len(temporalOut) :
              LET i == NthOf(ClaimedAnomalies, k) IN
              /\ temporalOut[k].timestamp = temporalCall.history[i].timestamp
              /\ temporalOut[k].emotion = temporalCall.history[i].emotion
              /\ temporalOut[k].text_preview = Preview(temporalCall.history[i].text)
              /\ temporalOut[k].severity = IF ZAbove(i, 3) THEN "high" ELSE "medium"

\* 21 records with an outlier before the last 20 that is not reported and an
\* outlier of z > 3 among the last 20 that is reported as high
C19_Witness ==
    /\ AnomaliesCalled
    /\ Len(temporalCall.history) = 21
    /\ ZAbove(1, 2)
    /\ Len(temporalOut) = 1
    /\ temporalOut[1].severity = "high"
    /\ temporalOut[1].emotion = "disgust"

\* detect_triggers was run on a history
TriggersCalled == temporalCall # None /\ temporalCall.op = "detect_triggers"

\* total and negative match counts of category c over the history of the call
MatchCount(c) ==
    SumSeq([i \in 1..Len(temporalCall.history) |-> Hits(temporalCall.history[i], c)])

NegativeMatchCount(c) ==
    SumSeq([i \in 1..Len(temporalCall.history) |->
               IF temporalCall.history[i].emotion \in {"sadness", "anger", "fear", "disgust"}
               THEN Hits(temporalCall.history[i], c) ELSE 0])

\* the category of the k-th reported trigger, as its place in the keyword table
CategoryAt(k) ==
    CHOOSE c \in 1..Len(trigger_keywords) :
        trigger_keywords[c].category = temporalOut[k].category

\* negative ratio of category c strictly greater than t tenths
RatioAbove(c, t) == 10 * NegativeMatchCount(c) > t * MatchCount(c)

\* the parts of the claim on which categories are reported and with what
\* severity and negative_correlation
C20_ReportedTriggers ==
    TriggersCalled =>
        /\ \A c \in 1..Len(trigger_keywords) :
              (\E k \in 1..Len(temporalOut) :
                   temporalOut[k].category = trigger_keywords[c].category)
              <=> (MatchCount(c) >= 3 /\ RatioAbove(c, 3))
        /\ \A k \in 1..Len(temporalOut) :
              /\ temporalOut[k].severity
                     = IF RatioAbove(CategoryAt(k), 7) THEN "high" ELSE "medium"
              /\ FracLeq(Frac(0, 1), temporalOut[k].negative_correlation)
              /\ FracLeq(temporalOut[k].negative_correlation, Frac(100, 1))

\* the returned list is in non-increasing order of the negative ratio
SortedByNegativeRatio ==
    \A k \in 1..Len(temporalOut), l \in 1..Len(temporalOut) :
        k < l => NegativeMatchCount(CategoryAt(k)) * MatchCount(CategoryAt(l))
                    >= NegativeMatchCount(CategoryAt(l)) * MatchCount(CategoryAt(k))

\* C20: detect_triggers reports a category iff its total match count is at
\* least 3 and its negative ratio is strictly greater than 0.3; a reported
\* trigger has severity high iff the ratio is strictly greater than 0.7, else
\* medium; negative_correlation is in [0,100]; and the returned list is
\* sorted by negative ratio in non-increasing order.
C20_TriggersReportedAndSorted ==
    TriggersCalled => (C20_ReportedTriggers /\ SortedByNegativeRatio)

\* the order the list does have: non-increasing in the reported
\* negative_correlation, the ratio as a percentage rounded to one decimal
C20_SortedByNegativeCorrelation ==
    TriggersCalled =>
        \A k \in 1..Len(temporalOut), l \in 1..Len(temporalOut) :
            k < l => FracLeq(temporalOut[l].negative_correlation,
                             temporalOut[k].negative_correlation)

\* the records of the history of the call whose text contains at least one
\* keyword of category c, and those of them with a negative emotion
MatchingRecords(c) ==
    { i \in 1..Len(temporalCall.history) : Hits(temporalCall.history[i], c) > 0 }

NegativeMatchingRecords(c) ==
    { i \in MatchingRecords(c) :
        temporalCall.history[i].emotion \in {"sadness", "anger", "fear", "disgust"} }

\* C21: in detect_triggers each record contributes to a category at most
\* once: the match count of a reported trigger is the number of records whose
\* text contains a keyword of the category, its negative-match count the
\* number of those records with a negative emotion, and its frequency never
\* exceeds the number of records of the history.
C21_RecordCountsOncePerCategory ==
    TriggersCalled =>
        \A k \in 1..Len(temporalOut) :
            LET c == CategoryAt(k) IN
            /\ temporalOut[k].frequency = Cardinality(MatchingRecords(c))
            /\ temporalOut[k].frequency <= Len(temporalCall.history)
            /\ temporalOut[k].negative_correlation
                   = RoundFrac(Frac(100 * Cardinality(NegativeMatchingRecords(c)),
                                    Cardinality(MatchingRecords(c))), 10)

\* what the counts are: one per keyword of the category found in a text
C21_CountsAreKeywordHits ==
    TriggersCalled =>
        \A k \in 1..Len(temporalOut) :
            LET c == CategoryAt(k) IN
            /\ temporalOut[k].frequency = MatchCount(c)
            /\ temporalOut[k].negative_correlation
                   = RoundFrac(Frac(100 * NegativeMatchCount(c), MatchCount(c)), 10)

\* the sample context made from record i of the history of the call
ContextOf(i) ==
    [text |-> Preview(temporalCall.history[i].text),
     emotion |-> temporalCall.history[i].emotion,
     timestamp |-> temporalCall.history[i].timestamp]

\* C22: for every reported trigger, sample_contexts has at most 3 entries,
\* taken from the earliest records in history order that matched the
\* category, each matching record appearing at most once.
C22_ContextsAreFirstSeenRecords ==
    TriggersCalled =>
        \A k \in 1..Len(temporalOut) :
            LET M == MatchingRecords(CategoryAt(k))
                contexts == temporalOut[k].sample_contexts
            IN /\ Len(contexts) <= 3
               /\ Len(contexts) = Min(3, Cardinality(M))
               /\ \A j \in 1..Len(contexts) : contexts[j] = ContextOf(NthOf(M, j))

\* what the contexts are: at most 3, one per keyword hit, so that all of
\* them can come from the first matching record
C22_ContextsAreFirstSeenHits ==
    TriggersCalled =>
        \A k \in 1..Len(temporalOut) :
            LET M == MatchingRecords(CategoryAt(k))
                contexts == temporalOut[k].sample_contexts
            IN /\ Len(contexts) = Min(3, MatchCount(CategoryAt(k)))
               /\ contexts[1] = ContextOf(NthOf(M, 1))
               /\ \A j \in 1..Len(contexts) : \E i \in M : contexts[j] = ContextOf(i)

\* the heatmap was computed from a history
HeatmapCalled ==
    temporalCall # None /\ temporalCall.op = "create_temporal_heatmap"

\* the records of the history of the call whose calendar date (field "date")
\* or hour (field "hour") is k
RecordsAt(field, k) ==
    { i \in 1..Len(temporalCall.history) : temporalCall.history[i].timestamp[field] = k }

\* the sum of the counts of the buckets with the keys ks
RECURSIVE SumOfCounts(_, _)
SumOfCounts(buckets, ks) ==
    IF ks = {} THEN 0
    ELSE LET k == CHOOSE x \in ks : TRUE
         IN buckets[k].count + SumOfCounts(buckets, ks \ {k})

ScoreCalled == wellnessCall # None /\ wellnessCall.op = "calculate_score"

WellnessCategories == {"emotional", "behavioral", "treatment", "self_care", "risk"}

\* 0 <= x <= 100
InPercentRange(x) == 0 <= x.num /\ x.num <= 100 * x.den

\* C12: for factors in [0,100] the overall score and every category score
\* that calculate_score returns lie in [0,100].
C12_WellnessScoresInRange ==
    ScoreCalled =>
        /\ InPercentRange(wellnessOut.overall_score)
        /\ \A k \in WellnessCategories :
               InPercentRange(wellnessOut.category_scores[k])

\* both ends of the range are returned: every score 0 for the worst factors
C12_Witness ==
    /\ ScoreCalled
    /\ wellnessCall.factors = WorstFactors
    /\ wellnessOut.overall_score = Frac(0, 10)
    /\ \A k \in WellnessCategories : wellnessOut.category_scores[k] = Frac(0, 10)

\* the formulas of the categories (hundredths) and of the overall score
\* (ten-thousandths), on factors given in tenths
FormulaOf(f) ==
    [emotional |-> 4 * f.mood_score + 3 * (1000 - f.anxiety_level)
                     + 3 * (1000 - f.stress_level),
     behavioral |-> 4 * f.sleep_quality + 3 * f.exercise_frequency
                      + 3 * f.social_interaction,
     treatment |-> 5 * f.medication_adherence + 5 * f.therapy_attendance,
     self_care |-> 5 * f.meditation_practice + 5 * f.journaling_frequency,
     risk |-> 10000 - 5 * (f.substance_use + f.self_harm_thoughts)]

OverallFormulaOf(f) ==
    30 * FormulaOf(f).emotional + 25 * FormulaOf(f).behavioral
        + 20 * FormulaOf(f).treatment + 15 * FormulaOf(f).self_care
        + 10 * FormulaOf(f).risk

\* C13 as stated: the returned category scores and overall score are the
\* values of the formulas, and the default factors give 57.5.
C13_ScoresAreTheFormulas ==
    ScoreCalled =>
        LET f == wellnessCall.factors IN
        /\ \A k \in WellnessCategories :
               FracEq(wellnessOut.category_scores[k], Frac(FormulaOf(f)[k], 100))
        /\ FracEq(wellnessOut.overall_score, Frac(OverallFormulaOf(f), 10000))
        /\ f = DefaultFactors => wellnessOut.overall_score = Frac(575, 10)

\* x is a number of tenths at most 0.05 away from value / unit
RoundedToTenth(x, value, unit) ==
    /\ x.den = 10
    /\ 2 * (x.num * unit - 10 * value) <= unit
    /\ 2 * (10 * value - x.num * unit) <= unit

\* C13 amended: the returned category scores and overall score are the values
\* of the formulas rounded to one decimal place, the overall score being the
\* weighted sum of the unrounded category values; the default factors give
\* 57.5.
C13_ScoresAreTheRoundedFormulas ==
    ScoreCalled =>
        LET f == wellnessCall.factors IN
        /\ \A k \in WellnessCategories :
               RoundedToTenth(wellnessOut.category_scores[k], FormulaOf(f)[k], 100)
        /\ RoundedToTenth(wellnessOut.overall_score, OverallFormulaOf(f), 10000)
        /\ f = DefaultFactors => wellnessOut.overall_score = Frac(575, 10)

\* a mood of 33.4 on the default factors: emotional 43.36 is returned as
\* 43.4 and overall 55.508 as 55.5
C13_Witness ==
    /\ ScoreCalled
    /\ wellnessCall.factors = [DefaultFactors EXCEPT !.mood_score = 334]
    /\ wellnessOut.category_scores.emotional = Frac(434, 10)
    /\ wellnessOut.overall_score = Frac(555, 10)

\* the fixed strength message of each category
StrengthMessage ==
    [emotional |-> "Strong emotional well-being",
     behavioral |-> "Healthy lifestyle habits",
     treatment |-> "Excellent treatment adherence",
     self_care |-> "Active self-care practice",
     risk |-> "Low risk factors"]

GenericEncouragement == "Making progress in your wellness journey"

\* the members of a sequence
Members(xs) == { xs[i] : i \in 1..Len(xs) }

\* the category scores of the factors of the call, in hundredths
CategoryScoresOfCall == FormulaOf(wellnessCall.factors)

\* the categories whose score is strictly greater than t
CategoriesAbove(t) == { k \in WellnessCategories : CategoryScoresOfCall[k] > 100 * t }

\* C25: in the score returned by calculate_score each of the five categories
\* contributes its fixed strength message exactly when its score is strictly
\* greater than 70; when no category qualifies the strengths are the single
\* generic encouragement; the strengths list is never empty.
C25_StrengthsAreCategoriesAbove70 ==
    ScoreCalled =>
        /\ wellnessOut.strengths # <<>>
        /\ \A k \in WellnessCategories :
              (StrengthMessage[k] \in Members(wellnessOut.strengths))
              <=> (k \in CategoriesAbove(70))
        /\ CategoriesAbove(70) = {}
              <=> wellnessOut.strengths = <<GenericEncouragement>>

\* the thresholds the strengths do have: 70 for emotional, behavioral and
\* treatment, 50 for self_care and 80 for risk
C25_StrengthsByCategoryThreshold ==
    ScoreCalled =>
        LET threshold == [emotional |-> 70, behavioral |-> 70, treatment |-> 70,
                          self_care |-> 50, risk |-> 80]
            strong == { k \in WellnessCategories :
                          CategoryScoresOfCall[k] > 100 * threshold[k] }
        IN /\ wellnessOut.strengths # <<>>
           /\ \A k \in WellnessCategories :
                 (StrengthMessage[k] \in Members(wellnessOut.strengths)) <=> (k \in strong)
           /\ strong = {} <=> wellnessOut.strengths = <<GenericEncouragement>>

\* the recommendation message of each raw-factor threshold, in the order of
\* the thresholds
RecommendationMessages ==
    << "Focus on improving sleep hygiene - aim for 7-9 hours",
       "Increase physical activity - even 15 minutes daily helps",
       "Try daily meditation or mindfulness exercises",
       "Engage in social activities to boost mood",
       "Practice anxiety management techniques",
       "Implement stress reduction strategies" >>

FallbackRecommendation == "Continue your current wellness practices"

\* the thresholds that trigger for the factors f (tenths), as places in
\* RecommendationMessages
TriggeredThresholds(f) ==
    (IF f.sleep_quality < 500 THEN {1} ELSE {})
    \cup (IF f.exercise_frequency < 500 THEN {2} ELSE {})
    \cup (IF f.meditation_practice < 300 THEN {3} ELSE {})
    \cup (IF f.social_interaction < 500 THEN {4} ELSE {})
    \cup (IF f.anxiety_level > 700 THEN {5} ELSE {})
    \cup (IF f.stress_level > 700 THEN {6} ELSE {})

\* C26: the recommendations list has between 1 and 5 items: the messages of
\* the triggered raw-factor thresholds (sleep<50, exercise<50, meditation<30,
\* social<50, anxiety>70, stress>70) in that order, truncated to the first
\* 5, and the single fallback message exactly when none of the six triggers.
C26_RecommendationsFollowThresholds ==
    ScoreCalled =>
        LET T == TriggeredThresholds(wellnessCall.factors)
            r == wellnessOut.recommendations
        IN /\ Len(r) >= 1 /\ Len(r) <= 5
           /\ T = {} <=> r = <<FallbackRecommendation>>
           /\ T # {} =>
                 /\ Len(r) = Min(5, Cardinality(T))
                 /\ \A j \in 1..Len(r) : r[j] = RecommendationMessages[NthOf(T, j)]

\* every factor at its worst but meditation at exactly 30 and stress at
\* exactly 70: four thresholds trigger, the two at their limit do not
C26_Witness ==
    /\ ScoreCalled
    /\ wellnessCall.factors.meditation_practice = 300
    /\ wellnessCall.factors.stress_level = 700
    /\ Len(wellnessOut.recommendations) = 4
    /\ wellnessOut.recommendations[4] = RecommendationMessages[5]

\* all six thresholds trigger and the list is cut to the first five
C26_WitnessTruncated ==
    /\ ScoreCalled
    /\ Cardinality(TriggeredThresholds(wellnessCall.factors)) = 6
    /\ Len(wellnessOut.recommendations) = 5

\* a score was calculated with at least two historical scores
TrendCompared ==
    /\ ScoreCalled
    /\ wellnessCall.historical_scores # None
    /\ Len(wellnessCall.historical_scores.list) >= 2

\* overall - avg compared with d: the sign of overall - (avg + d), where
\* overall is the unrounded score of the formulas and avg the mean of the
\* last min(3, n) historical scores
TrendGap(d) ==
    LET scores == wellnessCall.historical_scores.list
        n == Len(scores)
        m == Min(3, n)
        recent == SubSeq(scores, n - m + 1, n)
    IN OverallFormulaOf(wellnessCall.factors) * m
           - (SumSeq(recent) + 10 * d * m) * 1000

\* C27: the trend is stable whenever historical_scores is absent or has
\* fewer than 2 entries; otherwise, with avg the mean of the last min(3, n)
\* historical scores, it is improving iff overall > avg + 5, declining iff
\* overall < avg - 5 and stable otherwise; historical_scores is not modified.
C27_TrendComparesWithRecentAverage ==
    ScoreCalled =>
        /\ wellnessCall.historical_scores_after = wellnessCall.historical_scores
        /\ ~TrendCompared => wellnessOut.trend = "stable"
        /\ TrendCompared =>
              wellnessOut.trend = IF TrendGap(5) > 0 THEN "improving"
                                  ELSE IF TrendGap(-5) < 0 THEN "declining"
                                  ELSE "stable"

\* the same statement away from differences of exactly 5
C27_TrendComparesOffTies ==
    (ScoreCalled /\ (TrendCompared => (TrendGap(5) # 0 /\ TrendGap(-5) # 0)))
    => /\ wellnessCall.historical_scores_after = wellnessCall.historical_scores
       /\ ~TrendCompared => wellnessOut.trend = "stable"
       /\ TrendCompared =>
             wellnessOut.trend = IF TrendGap(5) > 0 THEN "improving"
                                 ELSE IF TrendGap(-5) < 0 THEN "declining"
                                 ELSE "stable"

\* the module was loaded
LoadCalled == wellnessCall # None /\ wellnessCall.op = "load"

\* the sum of a weight table, in hundredths
SumOfWeights(weights) ==
    weights.emotional + weights.behavioral + weights.treatment
        + weights.self_care + weights.risk

\* C24: the category weights sum to 1.0 and this is validated when the
\* configuration is loaded: a weight table whose sum is not 1.0 is rejected
\* with a configuration error at load time, so a calculator is only ever
\* built on a table that sums to 1.0.
C24_WeightsValidatedAtLoad ==
    LoadCalled =>
        IF SumOfWeights(wellnessCall.weights) = 100
        THEN wellnessCall.raised = NoneStr /\ wellnessOut.WEIGHTS = wellnessCall.weights
        ELSE wellnessCall.raised = "ConfigurationError"

\* the table of the source sums to 1.0 and loads
C24_SourceTableLoads ==
    (LoadCalled /\ wellnessCall.weights = WEIGHTS)
    => /\ SumOfWeights(wellnessCall.weights) = 100
       /\ wellnessCall.raised = NoneStr

\* ------------------------------------------------------------------------
\* In-memory emotion history: properties
\* ------------------------------------------------------------------------
\* the fixed taxonomy of emotion labels
EmotionTaxonomy == positive_emotions \cup negative_emotions

\* a label of the taxonomy and a score in [0,1]
WellFormed(emotion, score) ==
    emotion \in EmotionTaxonomy /\ 0 <= score /\ score <= 10

\* C14: add_entry with a score outside [0,1] or a label outside the taxonomy
\* fails with an invalid-record error and appends nothing, so no stored entry
\* is malformed.
C14_InvalidRecordIsRejected ==
    /\ (/\ patternCall # None
        /\ patternCall.op = "add_entry"
        /\ ~WellFormed(patternCall.emotion, patternCall.score))
           => patternCall.raised = "InvalidRecordError"
    /\ \A u \in DOMAIN emotion_history :
           \A i \in 1..Len(emotion_history[u]) :
               WellFormed(emotion_history[u][i].emotion, emotion_history[u][i].score)

\* the entries of the add_entry calls made for a user, in call order
AddedFor(user_id) ==
    LET calls == SelectSeq(added, LAMBDA c : c.user_id = user_id)
    IN [i \in 1..Len(calls) |->
           [emotion |-> calls[i].emotion, score |-> calls[i].score,
            timestamp |-> calls[i].timestamp]]

\* the entries stored for a user
StoredFor(user_id) ==
    IF user_id \in DOMAIN emotion_history THEN emotion_history[user_id] ELSE <<>>

\* the entries of a sequence that carry the timestamp t, in order
AtTimestamp(entries, t) == SelectSeq(entries, LAMBDA x : x.timestamp = t)

\* C15: the stored history of every user is the sequence of the add_entry
\* calls made for that user, unchanged by any later call, and
\* get_emotion_history returns the entries of the day window, each once per
\* add_entry call with its emotion and score, in non-decreasing timestamp
\* order, entries of one timestamp in insertion order.
C15_HistoryIsAppendOnlyAndOrdered ==
    /\ \A u \in PatternUsers : StoredFor(u) = AddedFor(u)
    /\ (patternCall # None /\ patternCall.op = "get_emotion_history") =>
           LET cutoff == clock - patternCall.days * HoursPerDay
               window == SelectSeq(AddedFor(patternCall.user_id),
                                   LAMBDA x : x.timestamp >= cutoff)
           IN /\ Len(patternOut) = Len(window)
              /\ \A i \in 1..(Len(patternOut) - 1) :
                     patternOut[i].timestamp <= patternOut[i + 1].timestamp
              /\ \A i \in 1..Len(window) :
                     AtTimestamp(patternOut, window[i].timestamp)
                         = AtTimestamp(window, window[i].timestamp)

\* two entries come back in timestamp order, the back-dated one first though
\* it was added last
C15_Witness ==
    /\ patternCall # None
    /\ patternCall.op = "get_emotion_history"
    /\ Len(patternOut) = 2
    /\ patternOut[1].timestamp < patternOut[2].timestamp
    /\ patternOut = <<AddedFor(patternCall.user_id)[2], AddedFor(patternCall.user_id)[1]>>

\* the history that holds the add_entry calls made for one user and nothing
\* of any other user
OwnHistory(user_id) == [u \in {user_id} |-> AddedFor(user_id)]

\* callers of different subjects run at the same time: only the append of
\* the caller of a subject changes what is stored for that subject
OnlyOwnAppendChanges ==
    \A u \in PatternUsers :
        StoredFor(u)' # StoredFor(u) =>
            /\ threads[u].pc = "append"
            /\ threads'[u].pc = "idle"
            /\ StoredFor(u)' = Append(StoredFor(u), threads[u].entry)

\* the report a caller holds is the report of the entries of its own subject
ReportIsOfOwnEntries ==
    \A u \in PatternUsers :
        threads[u].pc = "done" =>
            threads[u].result = pattern_analysis(OwnHistory(u), u, threads[u].now)

\* C28: subjects are isolated in the in-memory emotion history: in every
\* interleaving of the calls made for different subjects, add_entry for one
\* subject leaves the stored history of every other subject unchanged, and
\* the result of analyze_patterns for a subject depends only on the entries
\* of that subject.
C28_SubjectsAreIsolated ==
    [](ReportIsOfOwnEntries) /\ [][OnlyOwnAppendChanges]_vars

\* the caller of subject 1 holds a report on its joy entry while the caller
\* of subject 2, whose sadness entry is stored, is in the middle of its own
\* analyze_patterns
C28_Witness ==
    /\ threads[1].pc = "done"
    /\ threads[1].result.dominant_emotion = "joy"
    /\ threads[1].result.trend = "improving"
    /\ threads[2].pc = "scan"
    /\ \E i \in 1..Len(StoredFor(2)) : StoredFor(2)[i].emotion = "sadness"

\* the caller takes the result; the detector is ready for the next call
CrisisReturn ==
    /\ crisisCall # None
    /\ crisisCall' = None
    /\ crisisOut' = None
    /\ UNCHANGED <<crisis_detector, exceptCrisis>>

\* the caller takes the result of the fusion call
FusionReturn ==
    /\ fusionCall # None
    /\ fusionCall' = None
    /\ fusionOut' = None
    /\ UNCHANGED exceptFusion

\* ---------------------------------------------------------------------------
\* shared/rate_limiter.py: the in-memory rate limiter and its middleware
\* ---------------------------------------------------------------------------

\* the length of the window of is_allowed, and cleanup_interval, in seconds
WindowSeconds == 60
CleanupInterval == 60
\* requests_per_minute of the module global
DefaultRequestsPerMinute == 60

\* how far the limiter's clock runs, and how many is_allowed calls are made
MaxRateClock == 122
MaxCalls == 4

ClientIps == {"10.0.0.1", "10.0.0.2"}
\* what add_rate_limiting is called with
RequestsPerMinute == {1, 2}
\* the seconds that pass between two requests
RateSteps == {30, 31}
\* the paths requested: one the middleware skips, one it limits
RequestPaths == {"/health", "/analyze"}
SkippedPaths == {"/health", "/", "/docs", "/redoc", "/openapi.json"}

\* defaultdict(list) with no key yet
EmptyRequests == [ip \in {} |-> <<>>]

\* RateLimiter.__init__ at the time time.time() returns
RateLimiter(requests_per_minute, current_time) ==
    [requests_per_minute |-> requests_per_minute,
     requests |-> EmptyRequests,
     cleanup_interval |-> CleanupInterval,
     last_cleanup |-> current_time]

\* the list comprehension of both methods: the times after cutoff_time
RecentRequests(times, cutoff_time) ==
    SelectSeq(times, LAMBDA req_time : req_time > cutoff_time)

\* self.requests[ip] of the defaultdict: the key is created when missing
WithKey(requests, ip) ==
    IF ip \in DOMAIN requests THEN requests ELSE requests @@ (ip :> <<>>)

\* a cleanup that measures age from the time of the call
cleanup_old_requests_to_now(limiter, current_time) ==
    IF current_time - limiter.last_cleanup > limiter.cleanup_interval
    THEN LET cutoff_time == current_time
             kept == [ip \in DOMAIN limiter.requests |->
                         RecentRequests(limiter.requests[ip], cutoff_time)]
         IN  [limiter EXCEPT
                 !.requests = [ip \in {k \in DOMAIN kept : kept[k] # <<>>} |-> kept[ip]],
                 !.last_cleanup = current_time]
    ELSE limiter

\* RateLimiter._cleanup_old_requests
cleanup_old_requests(limiter, current_time) ==
    IF current_time - limiter.last_cleanup > limiter.cleanup_interval
    THEN LET cutoff_time == current_time - WindowSeconds
             kept == [ip \in DOMAIN limiter.requests |->
                         RecentRequests(limiter.requests[ip], cutoff_time)]
         IN  [limiter EXCEPT
                 !.requests = [ip \in {k \in DOMAIN kept : kept[k] # <<>>} |-> kept[ip]],
                 !.last_cleanup = current_time]
    ELSE limiter

\* RateLimiter.is_allowed: the limiter after the call and the pair returned
is_allowed(limiter, client_ip, current_time) ==
    LET cleaned == cleanup_old_requests(limiter, current_time)
        cutoff_time == current_time - WindowSeconds
        requests == WithKey(cleaned.requests, client_ip)
        recent_requests == RecentRequests(requests[client_ip], cutoff_time)
    IN  IF Len(recent_requests) >= cleaned.requests_per_minute
        THEN [limiter |-> [cleaned EXCEPT !.requests = requests],
              is_allowed |-> FALSE,
              remaining |-> 0]
        ELSE [limiter |-> [cleaned EXCEPT !.requests =
                              [requests EXCEPT ![client_ip] = Append(@, current_time)]],
              is_allowed |-> TRUE,
              remaining |-> cleaned.requests_per_minute - Len(recent_requests) - 1]

\* add_rate_limiting: the module global is replaced before requests arrive
AddRateLimiting ==
    /\ rateLog = <<>>
    /\ rateOut = None
    /\ rate_limiter.requests_per_minute = DefaultRequestsPerMinute
    /\ \E requests_per_minute \in RequestsPerMinute :
           rate_limiter' = RateLimiter(requests_per_minute, rateTime)
    /\ UNCHANGED <<rateTime, rateLog, rateOut, exceptRate>>

\* rate_limit_middleware on a request of client_ip for a path
RateLimitMiddleware ==
    /\ Len(rateLog) < MaxCalls
    /\ \E client_ip \in ClientIps, path \in RequestPaths :
           IF path \in SkippedPaths
           THEN /\ rateOut' = [client_ip |-> client_ip, path |-> path,
                               status_code |-> 200, remaining |-> None]
                /\ UNCHANGED <<rate_limiter, rateLog>>
           ELSE LET call == is_allowed(rate_limiter, client_ip, rateTime)
                IN  /\ rate_limiter' = call.limiter
                    /\ rateLog' = Append(rateLog,
                           [client_ip |-> client_ip, at |-> rateTime,
                            is_allowed |-> call.is_allowed,
                            remaining |-> call.remaining])
                    /\ rateOut' = [client_ip |-> client_ip, path |-> path,
                                   status_code |-> IF call.is_allowed THEN 200 ELSE 429,
                                   remaining |-> [header |-> call.remaining]]
    /\ UNCHANGED <<rateTime, exceptRate>>

\* time passes between two requests
RateClock ==
    /\ \E step \in RateSteps :
           /\ rateTime + step <= MaxRateClock
           /\ rateTime' = rateTime + step
    /\ UNCHANGED <<rate_limiter, rateLog, rateOut, exceptRate>>

NextRateLimiter == AddRateLimiting \/ RateLimitMiddleware \/ RateClock

\* ---- the rate limiter: what it grants ----

RateCalls == 1..Len(rateLog)

\* the calls of ip that returned allowed at a time in [a, a + 60)
GrantedIn(ip, a) ==
    {i \in RateCalls :
        /\ rateLog[i].client_ip = ip
        /\ rateLog[i].is_allowed
        /\ a <= rateLog[i].at
        /\ rateLog[i].at < a + WindowSeconds}

\* a window with the most grants can be moved to start at its first grant,
\* so the windows that start at the time of a call are all that matter
WindowBound ==
    \A ip \in ClientIps : \A i \in RateCalls :
        Cardinality(GrantedIn(ip, rateLog[i].at)) <= rate_limiter.requests_per_minute

\* the times at which ip was granted a request, in call order
GrantedTimes(ip) ==
    LET granted == SelectSeq(rateLog, LAMBDA c : c.client_ip = ip /\ c.is_allowed)
    IN  [i \in 1..Len(granted) |-> granted[i].at]

StoredTimes(ip) ==
    IF ip \in DOMAIN rate_limiter.requests THEN rate_limiter.requests[ip] ELSE <<>>

IsSuffix(s, t) ==
    /\ Len(s) <= Len(t)
    /\ \A i \in 1..Len(s) : s[i] = t[Len(t) - Len(s) + i]

\* a denied call returns 0 and the timestamps kept are of granted calls only
DeniedRecordsNothing ==
    /\ \A i \in RateCalls : ~rateLog[i].is_allowed => rateLog[i].remaining = 0
    /\ \A ip \in ClientIps : IsSuffix(StoredTimes(ip), GrantedTimes(ip))

\* the earlier grants of the same client in the 60 seconds up to call i
OwnRecent(i) ==
    {j \in 1..(i - 1) :
        /\ rateLog[j].client_ip = rateLog[i].client_ip
        /\ rateLog[j].is_allowed
        /\ rateLog[j].at > rateLog[i].at - WindowSeconds}

\* what a call returns is decided by the grants of its own client alone
OwnAllowanceOnly ==
    \A i \in RateCalls :
        LET own == Cardinality(OwnRecent(i))
        IN  /\ rateLog[i].is_allowed = (own < rate_limiter.requests_per_minute)
            /\ rateLog[i].is_allowed =>
                   rateLog[i].remaining = rate_limiter.requests_per_minute - own - 1

\* C29: for every client IP and every sequence of is_allowed calls at
\* non-decreasing times, cleanup included, the calls granted within any 60
\* seconds never exceed requests_per_minute; a denied call returns remaining 0
\* and records no timestamp; the requests of one IP never reduce the allowance
\* of another
C29_RateLimitHoldsPerClient ==
    /\ WindowBound
    /\ DeniedRecordsNothing
    /\ OwnAllowanceOnly

\* one client denied, the other granted after that, a cleanup done, and the
\* first client granted again once its window has passed
C29_Witness ==
    /\ rate_limiter.requests_per_minute = 1
    /\ rate_limiter.last_cleanup > 0
    /\ Len(rateLog) = 4
    /\ rateLog[1].client_ip = "10.0.0.1" /\ rateLog[1].is_allowed
    /\ rateLog[2].client_ip = "10.0.0.1" /\ ~rateLog[2].is_allowed
    /\ rateLog[3].client_ip = "10.0.0.2" /\ rateLog[3].is_allowed
    /\ rateLog[3].at = rateLog[2].at
    /\ rateLog[4].client_ip = "10.0.0.1" /\ rateLog[4].is_allowed

\* ---------------------------------------------------------------------------
\* ai/shared/cache.py: the TTL cache of models and the cache_model decorator
\* ---------------------------------------------------------------------------

\* ttl_seconds of model_cache
ModelTtlSeconds == 3600

\* how far the cache's clock runs, and how many loads, clears and returns happen
MaxCacheClock == 7200
MaxCacheEvents == 6

CacheThreads == {1, 2}
\* the key the loader is decorated with
ModelKey == "test_model"
\* the seconds that pass in one step: half a TTL, or a whole one
CacheSteps == {ModelTtlSeconds \div 2, ModelTtlSeconds}

\* TTLCache.__init__
TTLCache(ttl_seconds) == [cache |-> [k \in {} |-> None], ttl |-> ttl_seconds]

\* TTLCache.get, under the lock: the cache after the call and the value returned
get(self, key, current_time) ==
    IF key \in DOMAIN self.cache
    THEN IF current_time < self.cache[key].expiry
         THEN [self |-> self, value |-> self.cache[key].value]
         ELSE [self |-> [self EXCEPT !.cache =
                            [k \in DOMAIN self.cache \ {key} |-> self.cache[k]]],
               value |-> None]
    ELSE [self |-> self, value |-> None]

\* TTLCache.set, under the lock
set(self, key, value, current_time) ==
    [self EXCEPT !.cache =
        [k \in DOMAIN self.cache \cup {key} |->
            IF k = key THEN [value |-> value, expiry |-> current_time + self.ttl]
            ELSE self.cache[k]]]

\* TTLCache.clear, under the lock
clear(self) == [self EXCEPT !.cache = [k \in {} |-> None]]

\* a thread outside the wrapper
\* pc: the statement it is at; since: how many events had happened at its lookup
Outside == [pc |-> "outside", model |-> None, hit |-> FALSE, since |-> 0]

InFlight == {t \in CacheThreads : callers[t].pc # "outside"}

\* the loader runs so far: each run makes a new instance
Loads == SelectSeq(cacheLog, LAMBDA ev : ev.op = "load")

\* the wrapper is entered and asks the cache
WrapperGet(t) ==
    /\ callers[t].pc = "outside"
    /\ Len(cacheLog) + 2 * (Cardinality(InFlight) + 1) <= MaxCacheEvents
    /\ LET got == get(model_cache, ModelKey, cacheTime)
       IN  /\ model_cache' = got.self
           /\ callers' = [callers EXCEPT ![t] =
                  IF got.value # None
                  THEN [pc |-> "return", model |-> got.value, hit |-> TRUE,
                        since |-> Len(cacheLog)]
                  ELSE [pc |-> "load", model |-> None, hit |-> FALSE,
                        since |-> Len(cacheLog)]]
    /\ UNCHANGED <<cacheTime, cacheLog, exceptCache>>

\* model = func(*args, **kwargs): the loader makes a new instance
WrapperLoad(t) ==
    /\ callers[t].pc = "load"
    /\ LET model == [instance |-> Len(Loads) + 1]
       IN  /\ callers' = [callers EXCEPT ![t] =
                  [callers[t] EXCEPT !.pc = "set", !.model = model]]
           /\ cacheLog' = Append(cacheLog,
                  [op |-> "load", by |-> t, model |-> model, at |-> cacheTime,
                   since |-> callers[t].since])
    /\ UNCHANGED <<model_cache, cacheTime, exceptCache>>

\* model_cache.set(key, model)
WrapperSet(t) ==
    /\ callers[t].pc = "set"
    /\ model_cache' = set(model_cache, ModelKey, callers[t].model, cacheTime)
    /\ callers' = [callers EXCEPT ![t].pc = "return"]
    /\ UNCHANGED <<cacheTime, cacheLog, exceptCache>>

\* the wrapper returns the model to its caller
WrapperReturn(t) ==
    /\ callers[t].pc = "return"
    /\ callers' = [callers EXCEPT ![t] = Outside]
    /\ cacheLog' = Append(cacheLog,
           [op |-> "return", by |-> t, model |-> callers[t].model, at |-> cacheTime,
            since |-> callers[t].since])
    /\ UNCHANGED <<model_cache, cacheTime, exceptCache>>

\* clear_all_caches
ClearAllCaches ==
    /\ Len(cacheLog) + 2 * Cardinality(InFlight) < MaxCacheEvents
    /\ DOMAIN model_cache.cache # {}
    /\ model_cache' = clear(model_cache)
    /\ cacheLog' = Append(cacheLog,
           [op |-> "clear", by |-> 0, model |-> None, at |-> cacheTime,
            since |-> Len(cacheLog)])
    /\ UNCHANGED <<cacheTime, callers, exceptCache>>

\* time passes
CacheClock ==
    /\ \E step \in CacheSteps :
           /\ cacheTime + step <= MaxCacheClock
           /\ cacheTime' = cacheTime + step
    /\ UNCHANGED <<model_cache, callers, cacheLog, exceptCache>>

NextModelCache ==
    \/ \E t \in CacheThreads : WrapperGet(t)
    \/ \E t \in CacheThreads : WrapperLoad(t)
    \/ \E t \in CacheThreads : WrapperSet(t)
    \/ \E t \in CacheThreads : WrapperReturn(t)
    \/ ClearAllCaches
    \/ CacheClock

\* ---- the model cache: what callers end up holding ----

CacheEvents == 1..Len(cacheLog)

Returns == {i \in CacheEvents : cacheLog[i].op = "return"}

\* no clear since the lookups of returns i and j
NoClearSince(i, j) ==
    \A k \in CacheEvents :
        (k > cacheLog[i].since \/ k > cacheLog[j].since) => cacheLog[k].op # "clear"

\* the time the instance of return i was loaded: its TTL period starts there
LoadedAt(i) ==
    LET run == CHOOSE k \in CacheEvents :
                   cacheLog[k].op = "load" /\ cacheLog[k].model = cacheLog[i].model
    IN  cacheLog[run].at

\* two returns with no clear since their calls, both inside the TTL period
\* of either instance
SamePeriod(i, j) ==
    /\ i < j
    /\ NoClearSince(i, j)
    /\ cacheLog[j].at < LoadedAt(i) + model_cache.ttl
    /\ cacheLog[j].at < LoadedAt(j) + model_cache.ttl

SameInstanceWithinPeriod ==
    \A i \in Returns : \A j \in Returns :
        SamePeriod(i, j) => cacheLog[j].model = cacheLog[i].model

\* a thread is past its load only if its own lookup missed
LoaderRunsOnlyOnMiss ==
    \A t \in CacheThreads :
        callers[t].pc = "set" => ~callers[t].hit

\* C30: a loader decorated with cache_model(key) returns the same instance on
\* every call made before the entry expires or the cache is cleared, and runs
\* only on a miss, in every interleaving of calls from several threads: two
\* callers never hold two different instances for the key in one TTL period
C30_OneInstancePerPeriod ==
    /\ SameInstanceWithinPeriod
    /\ LoaderRunsOnlyOnMiss

Init ==
    /\ crisis_detector = CrisisModuleGlobal
    /\ crisisCall = None
    /\ crisisOut = None
    /\ fusionCall = None
    /\ fusionOut = None
    /\ text_analyses = <<>>
    /\ clock = 0
    /\ temporalCall = None
    /\ temporalOut = None
    /\ wellnessCall = None
    /\ wellnessOut = None
    /\ emotion_history = EmptyHistory
    /\ patternCall = None
    /\ patternOut = None
    /\ added = <<>>
    /\ threads = [t \in PatternUsers |-> Idle]
    /\ rate_limiter = RateLimiter(DefaultRequestsPerMinute, 0)
    /\ rateTime = 0
    /\ rateLog = <<>>
    /\ rateOut = None
    /\ model_cache = TTLCache(ModelTtlSeconds)
    /\ cacheTime = 0
    /\ callers = [t \in CacheThreads |-> Outside]
    /\ cacheLog = <<>>

NextCrisis == AnalyzeMessage \/ LogCrisisEvent \/ CrisisReturn

SpecCrisis == Init /\ [][NextCrisis]_vars

NextFusion == CalculateFusionEmotion \/ AnalyzeFusion \/ FusionReturn

SpecFusion == Init /\ [][NextFusion]_vars

NextTemporal ==
    \/ InsertTextAnalysis
    \/ AdvanceClock
    \/ AnalyzePatterns
    \/ PredictEmotionTrend
    \/ DetectAnomalies
    \/ TemporalReturn

SpecTemporal == Init /\ [][NextTemporal]_vars

\* the temporal analyzer on long series
NextSeries ==
    \/ InsertSeriesAnalysis
    \/ AnalyzePatterns
    \/ PredictEmotionTrend
    \/ DetectAnomalies
    \/ DetectTriggers
    \/ TemporalReturn

SpecSeries == Init /\ [][NextSeries]_vars

\* the heatmap on records spread over days and hours
NextHeatmap ==
    \/ InsertTimedAnalysis
    \/ HeatClock
    \/ CreateTemporalHeatmap
    \/ TemporalReturn

SpecHeatmap == Init /\ [][NextHeatmap]_vars

NextWellness == CalculateScore \/ CalculateScoreWithHistory \/ WellnessReturn

SpecWellness == Init /\ [][NextWellness]_vars

\* loading the wellness calculator
NextWellnessLoad == LoadWellnessCalculator \/ WellnessReturn

SpecWellnessLoad == Init /\ [][NextWellnessLoad]_vars

NextPatterns ==
    \/ AddEntry
    \/ GetEmotionHistory
    \/ PatternAnalyze
    \/ PatternClock
    \/ PatternReturn

SpecPatterns == Init /\ [][NextPatterns]_vars

\* the in-memory emotion history under concurrent callers
NextPatternThreads ==
    \/ \E t \in PatternUsers : ThreadAddEntry(t)
    \/ \E t \in PatternUsers : ThreadLookup(t)
    \/ \E t \in PatternUsers : ThreadAppend(t)
    \/ \E t \in PatternUsers : ThreadAnalyze(t)
    \/ \E t \in PatternUsers : ThreadScan(t)
    \/ \E t \in PatternUsers : ThreadReturn(t)
    \/ ThreadClock

SpecPatternThreads == Init /\ [][NextPatternThreads]_vars

\* the rate limiter behind its middleware
SpecRateLimiter == Init /\ [][NextRateLimiter]_vars

\* the model cache under concurrent callers
SpecModelCache == Init /\ [][NextModelCache]_vars

Next ==
    \/ NextCrisis
    \/ NextFusion
    \/ NextTemporal
    \/ NextSeries
    \/ NextHeatmap
    \/ NextWellness
    \/ NextWellnessLoad
    \/ NextPatterns
    \/ NextPatternThreads
    \/ NextRateLimiter
    \/ NextModelCache

Spec == Init /\ [][Next]_vars
====
